---- MODULE Spec2Model ----
(***************************************************************************)
(* Staging pipeline of the Dev Portal API: extraction of translatable      *)
(* units into portal_translate, the translation worker, packaging into     *)
(* portal_chroma_doc and the batched upsert into the vector store.         *)
(*                                                                         *)
(* Texts are sequences of one-character strings.  A nullable column holds  *)
(* Null (the empty tuple) or Some(v) (the one-element tuple <<v>>).  A     *)
(* natural key 'entity::scope::attribute' is the tuple of its three        *)
(* segments; the segments of the modelled source rows hold no '::'.        *)
(***************************************************************************)
EXTENDS Integers, Sequences, FiniteSets, TLC

VARIABLES
    srcFields,    \* public.portal_fields: field_name -> source row
    srcViews,     \* public.portal_view_common: action_xmlid -> source row
    srcEdits,     \* number of edits the external importer has made
    translate,    \* public.portal_translate: natural key -> row or NoRow
    nextTid,      \* next value of portal_translate's id sequence
    docs,         \* public.portal_chroma_doc (committed): natural key -> row or NoRow
    nextDid,      \* next value of portal_chroma_doc's id sequence
    res,          \* the last finished operation: request, result, observations
    up,           \* the index-upsert run in flight (ChromaUpsertService.run)
    now,          \* wall clock (time.time())
    chroma,       \* the vector store: collection -> document id -> text
    tx,           \* the translation run in flight (run_translate) and its session
    ex,           \* the extraction calls in flight, each with its own session
    util,         \* a call of a utility function: its arguments and its result
    runs,         \* the concurrent translation runs, each with its own session
    walk          \* a client following next_cursor through list_keyset pages

vars == <<srcFields, srcViews, srcEdits, translate, nextTid, docs, nextDid,
          res, up, now, chroma, tx, ex, util, runs, walk>>

----------------------------------------------------------------------------
(* Bounds of the model *)

MaxSrcEdits == 1
MaxLimit == 3
MaxTime == 3
MaxDocs == 3
MaxDocId == 3
MaxRowId == 4
RepeatLimit == 1
\* settings.EMBED_BATCH_SIZE (config.py:63) and settings.CHROMA_TIMEOUT_S
\* (config.py:58) are deployment settings; the model runs with small ones.
EMBED_BATCH_SIZE == 1
CHROMA_TIMEOUT_S == 1

----------------------------------------------------------------------------
(* Values *)

Null == <<>>
Some(v) == <<v>>
NoRow == [absent |-> TRUE]

SRC_LANG == "ja_JP"
TGT_LANG == "en_US"
MODEL == "m1"
FieldOrder == <<"f1">>                  \* ORDER BY model, field_name
ViewOrder == <<"a1">>                 \* ORDER BY action_xmlid
FieldNames == {FieldOrder[i] : i \in 1..Len(FieldOrder)}
ViewNames == {ViewOrder[i] : i \in 1..Len(ViewOrder)}
Targets == {"ai_purpose", "help"}

RawTexts == {<<>>, <<"a">>, <<"a", " ">>, <<"b">>}
EditedField == "f1"                   \* the field row the importer rewrites
EnTexts == {<<>>, <<"e">>}

FieldKey(model, field_name) == <<"field", model, field_name>>
ViewKey(action_xmlid, target) == <<"view_common", action_xmlid, target>>
NaturalKeys == {FieldKey(MODEL, f) : f \in FieldNames}
               \cup {ViewKey(a, t) : a \in ViewNames, t \in Targets}

Max(a, b) == IF a > b THEN a ELSE b
Min(a, b) == IF a < b THEN a ELSE b

Range(s) == {s[i] : i \in 1..Len(s)}

\* a utility function that returned a value, or raised
Value(v) == [raised |-> FALSE, value |-> v]
Error(e) == [raised |-> TRUE, value |-> e]

\* no utility function was called
NoCall == [fn |-> "none", args |-> <<>>, done |-> TRUE, out |-> Value(<<>>)]

\* a call that was made and has not returned yet
Call(fn, args) == [fn |-> fn, args |-> args, done |-> FALSE, out |-> Value(<<>>)]

----------------------------------------------------------------------------
(* Text helpers *)

IsWs(c) == c \in {" ", "\n", "\t", "\r"}
IsHWs(c) == c \in {" ", "\t"}

RECURSIVE LStrip(_)
LStrip(s) == IF s = <<>> THEN s
             ELSE IF IsWs(Head(s)) THEN LStrip(Tail(s)) ELSE s

RECURSIVE RStrip(_)
RStrip(s) == IF s = <<>> THEN s
             ELSE IF IsWs(s[Len(s)]) THEN RStrip(SubSeq(s, 1, Len(s) - 1)) ELSE s

Strip(s) == RStrip(LStrip(s))

\* length of the longest prefix of s whose characters all satisfy the class
RECURSIVE WsRun(_)
WsRun(s) == IF s = <<>> \/ ~IsWs(Head(s)) THEN 0 ELSE 1 + WsRun(Tail(s))

RECURSIVE HWsRun(_)
HWsRun(s) == IF s = <<>> \/ ~IsHWs(Head(s)) THEN 0 ELSE 1 + HWsRun(Tail(s))

Drop(s, n) == SubSeq(s, n + 1, Len(s))

\* s.replace("\r\n", "\n").replace("\r", "\n")
RECURSIVE ReplaceCr(_)
ReplaceCr(s) ==
    IF s = <<>> THEN s
    ELSE IF Head(s) = "\r"
         THEN IF Len(s) > 1 /\ s[2] = "\n"
              THEN <<"\n">> \o ReplaceCr(Drop(s, 2))
              ELSE <<"\n">> \o ReplaceCr(Tail(s))
         ELSE <<Head(s)>> \o ReplaceCr(Tail(s))

\* _nl_re.sub("\n", s) with _nl_re = \s*\n\s*
RECURSIVE NlSub(_)
NlSub(s) ==
    IF s = <<>> THEN s
    ELSE LET n == WsRun(s) IN
         IF n > 0 /\ "\n" \in Range(SubSeq(s, 1, n))
         THEN <<"\n">> \o NlSub(Drop(s, n))
         ELSE IF n > 0 THEN SubSeq(s, 1, n) \o NlSub(Drop(s, n))
         ELSE <<Head(s)>> \o NlSub(Tail(s))

\* _ws_re.sub(" ", s) with _ws_re = [ \t\f\v]+
RECURSIVE WsSub(_)
WsSub(s) ==
    IF s = <<>> THEN s
    ELSE LET n == HWsRun(s) IN
         IF n > 0 THEN <<" ">> \o WsSub(Drop(s, n))
         ELSE <<Head(s)>> \o WsSub(Tail(s))

_normalize_plain(s) ==
    IF s = <<>> THEN <<>>
    ELSE Strip(WsSub(NlSub(Strip(ReplaceCr(s)))))

\* hashlib.sha256(...).hexdigest(): distinct texts give distinct digests
_sha256(s) == <<"sha256", s>>

\* label_i18n holds the keys ja and en; a blank value counts as absent
_label_ja(label_ja) == IF Strip(label_ja) # <<>> THEN Strip(label_ja) ELSE <<>>

_has_en(label_en, extra) == Strip(label_en) # <<>> \/ Strip(extra) # <<>>

----------------------------------------------------------------------------
(* portal_translate *)

_get_existing_always_none(tbl, entity, nk) == NoRow

\* SELECT id, source_hash, state ... WHERE entity=:e AND natural_key=:nk AND langs
_get_existing(tbl, entity, nk) ==
    IF tbl[nk] # NoRow /\ tbl[nk].entity = entity THEN tbl[nk] ELSE NoRow

_insert_translate(tbl, tid, entity, nk, model, source_text, source_hash) ==
    [tbl EXCEPT ![nk] =
        [id |-> tid, entity |-> entity, natural_key |-> nk,
         source_text |-> source_text, translated_text |-> Null,
         source_hash |-> source_hash, state |-> "pending",
         last_error |-> Null, model |-> model]]

RowOfId(tbl, id) ==
    CHOOSE nk \in NaturalKeys : tbl[nk] # NoRow /\ tbl[nk].id = id

HasId(tbl, id) == \E nk \in NaturalKeys : tbl[nk] # NoRow /\ tbl[nk].id = id

_update_translate_keeps_state(tbl, row_id, source_text, source_hash) ==
    [tbl EXCEPT ![RowOfId(tbl, row_id)] =
        [@ EXCEPT !.source_text = source_text, !.source_hash = source_hash]]

_update_translate_keeps_text(tbl, row_id, source_text, source_hash) ==
    [tbl EXCEPT ![RowOfId(tbl, row_id)] =
        [@ EXCEPT !.source_text = source_text, !.source_hash = source_hash,
                  !.last_error = Null, !.state = "pending"]]

_update_translate_if_changed(tbl, row_id, source_text, source_hash) ==
    [tbl EXCEPT ![RowOfId(tbl, row_id)] =
        [@ EXCEPT !.source_text = source_text, !.source_hash = source_hash,
                  !.translated_text = Null, !.last_error = Null,
                  !.state = "pending"]]

----------------------------------------------------------------------------
(* Extraction engine: services/extract.py *)

Lower(n) == CASE n = "F1" -> "f1" [] n = "A1" -> "a1" [] OTHER -> n

EmptyExtractResult ==
    [picked |-> 0, inserted |-> 0, updated |-> 0, skipped_no_ja |-> 0,
     skipped_has_en |-> 0, skipped_not_found |-> 0, details |-> <<>>,
                       updated_from |-> <<>>]

Detail(acc, nk, reason) == [acc EXCEPT !.r.details = Append(@, <<nk, reason>>)]

\* _fetch_fields: WHERE lower(model) IN :models AND lower(field_name) IN :fns
\* ORDER BY model, field_name.  An empty request list means no clause.
_fetch_fields(models, fields) ==
    SelectSeq(FieldOrder,
        LAMBDA f : /\ srcFields[f].present
                   /\ (models # {} => Lower(MODEL) \in {Lower(m) : m \in models})
                   /\ (fields # {} => Lower(f) \in {Lower(x) : x \in fields}))

\* the text of a field unit: label, then the notes after a blank line
FieldSrcTextOf(row) ==
    LET ja_label == _label_ja(row.label_ja)
        ja_notes == _normalize_plain(row.notes)
        src_text == _normalize_plain(ja_label)
    IN IF ja_notes # <<>> THEN Strip(src_text \o <<"\n", "\n">> \o ja_notes)
       ELSE src_text

\* the body of extract_field's loop for one source row
extract_field_row(acc, f, mode) ==
    LET row == srcFields[f]
        src_text == FieldSrcTextOf(row)
        nk == FieldKey(MODEL, f)
        sh == _sha256(src_text)
        picked == [acc EXCEPT !.r.picked = @ + 1]
        existing == _get_existing(acc.tbl, "field", nk)
    IN IF src_text = <<>>
       THEN Detail([acc EXCEPT !.r.skipped_no_ja = @ + 1], nk, "no_ja")
       ELSE IF _has_en(row.label_en, <<>>)
       THEN Detail([acc EXCEPT !.r.skipped_has_en = @ + 1], nk, "has_en")
       ELSE IF existing # NoRow
       THEN IF mode = "skip_existing" THEN Detail(picked, nk, "exists_skip")
            ELSE IF existing.source_hash = sh THEN Detail(picked, nk, "no_change")
            ELSE [picked EXCEPT
                    !.tbl = _update_translate_if_changed(@, existing.id, src_text, sh),
                    !.r.updated = @ + 1,
                    !.r.updated_from = Append(@, <<nk, existing.state>>)]
       ELSE IF mode \in {"upsert", "upsert_if_changed"}
       THEN [picked EXCEPT
                !.tbl = _insert_translate(@, acc.tid, "field", nk, MODEL, src_text, sh),
                !.tid = @ + 1,
                !.r.inserted = @ + 1]
       ELSE Detail(picked, nk, "mode_skip")

\* for row in rows: each row is processed on the state the previous one left
RECURSIVE extract_field_rows(_, _, _)
extract_field_rows(acc, rows, mode) ==
    IF rows = <<>> THEN acc
    ELSE CHOOSE out \in {extract_field_rows(a, Tail(rows), mode) :
                            a \in {extract_field_row(acc, Head(rows), mode)}} : TRUE

\* extract_field(payload, session): the final table, id sequence and result
extract_field(req) ==
    LET rows == _fetch_fields(req.models, req.fields)
        acc0 == [tbl |-> translate, tid |-> nextTid, r |-> EmptyExtractResult]
    IN extract_field_rows(acc0, rows, req.mode)


ExtractFieldRequests ==
    {[models |-> {MODEL}, fields |-> {}, mode |-> m] :
        m \in {"skip_existing", "upsert_if_changed"}}
    \cup {[models |-> {}, fields |-> {"F1"}, mode |-> "upsert"]}

\* the rows of portal_translate an operation wrote
Written(before, after) == {nk \in NaturalKeys : before[nk] # after[nk]}

Finished(op, req, out, written) ==
    [op |-> op, req |-> req, out |-> out, written |-> written]

Idle == up.pc = "idle"

\* the two extraction requests that may be in flight at the same time
Calls == {1, 2}

\* an extraction call: where it stands, the units it goes through, the rows
\* its session has inserted and not committed, and whether its INSERT hit
\* the unique constraint on (entity, natural_key, src_lang, tgt_lang)
ExIdle ==
    [pc |-> "idle", units |-> <<>>, pos |-> 0,
     own |-> [nk \in NaturalKeys |-> NoRow], inserted |-> 0, conflict |-> FALSE]

\* a translation run with a session of its own: where it stands, the rows
\* _pick_pending gave it, how many the loop has gone through, the rows its
\* session has updated and not committed, what the provider did, its counts
RunIdle ==
    [pc |-> "idle", rows |-> <<>>, pos |-> 0,
     own |-> [nk \in NaturalKeys |-> NoRow], outcomes |-> <<>>,
     r |-> [picked |-> 0, translated |-> 0, failed |-> 0, samples |-> <<>>]]

\* nobody is listing
NoWalk == [pc |-> "idle", repo |-> "none", table |-> <<>>, filter |-> Null,
           limit |-> 0, cursor |-> Null, calls |-> <<>>]

ExtractField ==
    /\ Idle
    /\ \E req \in ExtractFieldRequests :
         \E acc \in {extract_field(req)} :
         /\ translate' = acc.tbl
         /\ nextTid' = acc.tid
         /\ res' = Finished("extract_field", req, acc.r, Written(translate, acc.tbl))
    /\ UNCHANGED <<runs, walk, util, ex, tx, srcFields, srcViews, srcEdits, docs, nextDid, up, now, chroma>>

\* _fetch_view_commons: WHERE lower(action_xmlid) IN :ids, keyed by action_xmlid
_fetch_view_commons(action_xmlids) ==
    {a \in ViewNames : srcViews[a].present
                       /\ Lower(a) \in {Lower(x) : x \in Range(action_xmlids)}}

\* the upsert of one view_common target (either branch of extract_view_common)
extract_view_target(acc, nk, ja_src, has_en, mode) ==
    LET sh == _sha256(ja_src)
        picked == [acc EXCEPT !.r.picked = @ + 1]
        existing == _get_existing(acc.tbl, "view_common", nk)
    IN IF ja_src = <<>>
       THEN Detail([acc EXCEPT !.r.skipped_no_ja = @ + 1], nk, "no_ja")
       ELSE IF has_en
       THEN Detail([acc EXCEPT !.r.skipped_has_en = @ + 1], nk, "has_en")
       ELSE IF existing # NoRow
       THEN IF mode = "skip_existing" THEN Detail(picked, nk, "exists_skip")
            ELSE IF existing.source_hash = sh THEN Detail(picked, nk, "no_change")
            ELSE [picked EXCEPT
                    !.tbl = _update_translate_if_changed(@, existing.id, ja_src, sh),
                    !.r.updated = @ + 1,
                    !.r.updated_from = Append(@, <<nk, existing.state>>)]
       ELSE [picked EXCEPT
                !.tbl = _insert_translate(@, acc.tid, "view_common", nk, MODEL, ja_src, sh),
                !.tid = @ + 1,
                !.r.inserted = @ + 1]

NotFound(acc, xmlid) ==
    Detail([acc EXCEPT !.r.skipped_not_found = @ + 1], ViewKey(xmlid, "*"), "not_found")

\* the body of extract_view_common's loop for one requested action_xmlid
extract_view_row(acc, xmlid, req) ==
    LET rows == _fetch_view_commons(req.action_xmlids)
        a == IF Lower(xmlid) \in rows THEN Lower(xmlid) ELSE xmlid
    IN IF a \notin rows THEN NotFound(acc, xmlid)
       ELSE LET row == srcViews[a]
                acc1 == IF "ai_purpose" \in req.targets
                        THEN extract_view_target(acc, ViewKey(a, "ai_purpose"),
                                 _normalize_plain(row.ai_purpose),
                                 _has_en(row.ai_en, <<>>), req.mode)
                        ELSE acc
            IN IF "help" \in req.targets
               THEN extract_view_target(acc1, ViewKey(a, "help"),
                        _normalize_plain(row.help_ja),
                        _has_en(<<>>, row.help_en), req.mode)
               ELSE acc1

RECURSIVE extract_view_rows(_, _, _)
extract_view_rows(acc, rows, ctx) ==
    IF rows = <<>> THEN acc
    ELSE CHOOSE out \in {extract_view_rows(a, Tail(rows), ctx) :
                            a \in {extract_view_row(acc, Head(rows), ctx)}} : TRUE

\* extract_view_common(payload, session)
extract_view_common(req) ==
    LET acc0 == [tbl |-> translate, tid |-> nextTid, r |-> EmptyExtractResult]
    IN extract_view_rows(acc0, req.action_xmlids, req)

ExtractViewRequests ==
    {[action_xmlids |-> <<"a1">>, targets |-> Targets, mode |-> m] :
        m \in {"skip_existing", "upsert_if_changed"}}
    \cup {[action_xmlids |-> <<"A1", "zz">>, targets |-> {"help"},
           mode |-> "upsert_if_changed"]}

ExtractViewCommon ==
    /\ Idle
    /\ \E req \in ExtractViewRequests :
         \E acc \in {extract_view_common(req)} :
         /\ translate' = acc.tbl
         /\ nextTid' = acc.tid
         /\ res' = Finished("extract_view_common", req, acc.r,
                            Written(translate, acc.tbl))
    /\ UNCHANGED <<runs, walk, util, ex, tx, srcFields, srcViews, srcEdits, docs, nextDid, up, now, chroma>>

----------------------------------------------------------------------------
(* The external importer rewrites the source tables *)

\* the rewrites of one source row that the importer may make
FieldEdits(row) ==
    {[row EXCEPT !.label_ja = t] : t \in RawTexts} \cup {[row EXCEPT !.present = ~@]}

ViewEdits(row) ==
    {[row EXCEPT !.ai_purpose = <<"b">>], [row EXCEPT !.help_en = <<"e">>]}

EditSource ==
    /\ Idle
    /\ srcEdits < MaxSrcEdits
    /\ srcEdits' = srcEdits + 1
    /\ \/ /\ \E e \in FieldEdits(srcFields[EditedField]) \ {srcFields[EditedField]} :
                srcFields' = [srcFields EXCEPT ![EditedField] = e]
          /\ UNCHANGED srcViews
       \/ /\ \E a \in ViewNames : \E e \in ViewEdits(srcViews[a]) \ {srcViews[a]} :
                srcViews' = [srcViews EXCEPT ![a] = e]
          /\ UNCHANGED srcFields
    /\ res' = Finished("edit_source", Null, Null, {})
    /\ UNCHANGED <<runs, walk, util, ex, tx, translate, nextTid, docs, nextDid, up, now, chroma>>

----------------------------------------------------------------------------
(* Translation runner: services/translate.py *)

TrimLimit == 2000
ErrLimit == 300
SamplesMax == 5

_trim_keeps_all(text) == text

\* _trim(text, limit=2000)
_trim(text) ==
    IF Len(text) > TrimLimit THEN SubSeq(text, 1, TrimLimit) \o <<"...">> ELSE text

\* DummyTranslator.translate: "(EN)" + text
Translated(text) == <<"(", "E", "N", ")">> \o text

ProviderError == <<"p", "r", "o", "v", "i", "d", "e", "r">>

\* ORDER BY id ASC: the ids of the rows of tbl, ascending
IdsAsc(tbl, bound) ==
    SelectSeq([i \in 1..(bound - 1) |-> i], LAMBDA i : HasId(tbl, i))

Prefix(s, n) == SubSeq(s, 1, IF Len(s) < n THEN Len(s) ELSE n)

_pick_pending_or_failed(tbl, limit, entities) ==
    LET ids == SelectSeq(IdsAsc(tbl, nextTid),
                   LAMBDA i : /\ tbl[RowOfId(tbl, i)].state \in {"pending", "failed"}
                              /\ (entities # {} =>
                                    tbl[RowOfId(tbl, i)].entity \in entities))
    IN [i \in 1..Len(Prefix(ids, limit)) |-> tbl[RowOfId(tbl, ids[i])]]

\* _pick_pending: state='pending' [AND entity IN :ents] ORDER BY id ASC LIMIT :limit
_pick_pending(tbl, limit, entities) ==
    LET ids == SelectSeq(IdsAsc(tbl, nextTid),
                   LAMBDA i : /\ tbl[RowOfId(tbl, i)].state = "pending"
                              /\ (entities # {} =>
                                    tbl[RowOfId(tbl, i)].entity \in entities))
    IN [i \in 1..Len(Prefix(ids, limit)) |-> tbl[RowOfId(tbl, ids[i])]]

_mark_translated(tbl, row_id, translated_text) ==
    [tbl EXCEPT ![RowOfId(tbl, row_id)] =
        [@ EXCEPT !.translated_text = Some(translated_text),
                  !.state = "translated", !.last_error = Null]]

_mark_failed_keeps_all(tbl, row_id, error) ==
    [tbl EXCEPT ![RowOfId(tbl, row_id)] =
        [@ EXCEPT !.state = "failed", !.last_error = Some(error)]]

_mark_failed(tbl, row_id, error) ==
    [tbl EXCEPT ![RowOfId(tbl, row_id)] =
        [@ EXCEPT !.state = "failed",
                  !.last_error = Some(Prefix(error, ErrLimit))]]

Sample(acc, nk, status) ==
    IF Len(acc.r.samples) < SamplesMax
    THEN [acc EXCEPT !.r.samples = Append(@, <<nk, status>>)] ELSE acc

\* what provider.translate does for one text: it returns, or it raises `error`
ProviderReturned == [raised |-> FALSE, error |-> <<>>]
ProviderRaised(error) == [raised |-> TRUE, error |-> error]

\* the body of run_translate's loop for one picked row: try (trim, translate,
\* mark translated), except Exception (mark failed with str(e))
translate_one(acc, r, outcome) ==
    IF ~outcome.raised
    THEN Sample([acc EXCEPT
                    !.tbl = _mark_translated(@, r.id, Translated(_trim(r.source_text))),
                    !.r.translated = @ + 1],
                r.natural_key, "translated")
    ELSE Sample([acc EXCEPT
                    !.tbl = _mark_failed(@, r.id, outcome.error),
                    !.r.failed = @ + 1],
                r.natural_key, "failed")

\* the same body when the provider raises for the rows whose id is in `raises`
run_translate_row(acc, r, raises) ==
    translate_one(acc, r, IF r.id \in raises THEN ProviderRaised(ProviderError) ELSE ProviderReturned)

RECURSIVE run_translate_rows(_, _, _)
run_translate_rows(acc, rows, ctx) ==
    IF rows = <<>> THEN acc
    ELSE CHOOSE out \in {run_translate_rows(a, Tail(rows), ctx) :
                            a \in {run_translate_row(acc, Head(rows), ctx)}} : TRUE

\* run_translate(payload, session)
run_translate(req, raises) ==
    LET rows == _pick_pending(translate, req.limit, req.entities)
        acc0 == [tbl |-> translate,
                 r |-> [picked |-> Len(rows), translated |-> 0, failed |-> 0,
                        samples |-> <<>>]]
    IN run_translate_rows(acc0, rows, raises)

EntitySets == {{}}

RunTranslate ==
    /\ Idle
    /\ \E limit \in {1, MaxLimit}, ents \in EntitySets :
         LET req == [limit |-> limit, entities |-> ents]
             picked == _pick_pending(translate, limit, ents)
         IN \E raises \in {{}} \cup {{picked[i].id} : i \in 1..Len(picked)} :
              \E acc \in {run_translate(req, raises)} :
              /\ translate' = acc.tbl
              /\ res' = Finished("run_translate", req, acc.r,
                                 Written(translate, acc.tbl))
    /\ UNCHANGED <<runs, walk, util, ex, tx, srcFields, srcViews, srcEdits, nextTid, docs, nextDid, up,
                   now, chroma>>

\* The same run taken one row at a time. The session is the request's own
\* (get_session): what the loop writes is in the session only, and the one
\* commit comes after the handler has returned.
TxIdle ==
    [pc |-> "idle", req |-> Null, rows |-> <<>>, pos |-> 0,
     acc |-> [tbl |-> [nk \in NaturalKeys |-> NoRow],
              r |-> [picked |-> 0, translated |-> 0, failed |-> 0, samples |-> <<>>]],
     outcomes |-> <<>>]

\* an error text longer than the 300 characters _mark_failed keeps
LongProviderError == [i \in 1..(ErrLimit + 1) |-> "e"]

ProviderOutcomes ==
    {ProviderReturned, ProviderRaised(ProviderError), ProviderRaised(LongProviderError)}

\* the observations of a translation run: the rows it picked, how many of
\* them the loop went through, and what the provider did for each
TranslateResult(t) ==
    [picked |-> t.acc.r.picked, translated |-> t.acc.r.translated,
     failed |-> t.acc.r.failed, samples |-> t.acc.r.samples,
     rows |-> t.rows, processed |-> t.pos, outcomes |-> t.outcomes,
     raised |-> FALSE]

\* run_translate up to the loop: the request's fields, _pick_pending
TranslateStart ==
    /\ Idle
    /\ tx.pc = "idle"
    /\ \E limit \in {1, MaxLimit}, ents \in EntitySets :
         LET rows == _pick_pending(translate, limit, ents)
         IN tx' = [pc |-> "loop", req |-> [limit |-> limit, entities |-> ents],
                   rows |-> rows, pos |-> 0,
                   acc |-> [tbl |-> translate,
                            r |-> [picked |-> Len(rows), translated |-> 0,
                                   failed |-> 0, samples |-> <<>>]],
                   outcomes |-> <<>>]
    /\ UNCHANGED <<runs, walk, util, ex, srcFields, srcViews, srcEdits, translate, nextTid, docs, nextDid,
                   res, up, now, chroma>>

\* one turn of the loop `for r in rows`
TranslateRow ==
    /\ tx.pc = "loop"
    /\ tx.pos < Len(tx.rows)
    /\ \E outcome \in ProviderOutcomes :
         \E acc \in {translate_one(tx.acc, tx.rows[tx.pos + 1], outcome)} :
            tx' = [tx EXCEPT !.acc = acc, !.pos = @ + 1,
                             !.outcomes = Append(@, outcome)]
    /\ UNCHANGED <<runs, walk, util, ex, srcFields, srcViews, srcEdits, translate, nextTid, docs, nextDid,
                   res, up, now, chroma>>

\* run_translate returns, post_translate_run returns, get_session commits
TranslateFinish ==
    /\ tx.pc = "loop"
    /\ tx.pos = Len(tx.rows)
    /\ translate' = tx.acc.tbl
    /\ res' = Finished("run_translate", tx.req, TranslateResult(tx),
                       Written(translate, tx.acc.tbl))
    /\ tx' = TxIdle
    /\ UNCHANGED <<runs, walk, util, ex, srcFields, srcViews, srcEdits, nextTid, docs, nextDid,
                   up, now, chroma>>

\* the process is killed inside the loop: the session was never committed and
\* the database drops what it wrote
TranslateKill ==
    /\ tx.pc = "loop"
    /\ res' = Finished("run_translate_killed", tx.req, TranslateResult(tx), {})
    /\ tx' = TxIdle
    /\ UNCHANGED <<runs, walk, util, ex, srcFields, srcViews, srcEdits, translate, nextTid, docs, nextDid,
                   up, now, chroma>>

----------------------------------------------------------------------------
(* Packaging: services/package.py, repos/portal_chroma_doc_repo.py *)

PACK_TEXT_LIMIT == 16384
PACK_SAMPLES_MAX == 5
ALLOWED_ENTITIES == {"field", "view_common"}
ALLOWED_VC_TARGETS == {"ai_purpose", "help"}
DEFAULT_COLLECTION_FIELD == "portal_field_ja"
DEFAULT_COLLECTION_VIEW_COMMON == "portal_view_common_ja"
PACK_LANG == "ja"

\* fallback _norm_ws: " ".join(s.split())
RECURSIVE AllWsSub(_)
AllWsSub(s) ==
    IF s = <<>> THEN s
    ELSE LET n == WsRun(s) IN
         IF n > 0 THEN <<" ">> \o AllWsSub(Drop(s, n))
         ELSE <<Head(s)>> \o AllWsSub(Tail(s))

_norm_ws(s) == AllWsSub(Strip(s))

\* length of the run of newlines that starts s
RECURSIVE NlRun(_)
NlRun(s) == IF s = <<>> \/ Head(s) # "\n" THEN 0 ELSE 1 + NlRun(Tail(s))

\* re.sub(r"\n{3,}", "\n\n", s)
RECURSIVE NlCap(_)
NlCap(s) ==
    IF s = <<>> THEN s
    ELSE LET n == NlRun(s) IN
         IF n >= 3 THEN <<"\n", "\n">> \o NlCap(Drop(s, n))
         ELSE IF n > 0 THEN SubSeq(s, 1, n) \o NlCap(Drop(s, n))
         ELSE <<Head(s)>> \o NlCap(Tail(s))

\* fallback _norm_nl(s, 2)
_norm_nl(s) == Strip(NlCap(ReplaceCr(s)))

\* index of the first ">" of s, 0 when there is none
RECURSIVE FirstGt(_)
FirstGt(s) == IF s = <<>> THEN 0
              ELSE IF Head(s) = ">" THEN 1
              ELSE LET n == FirstGt(Tail(s)) IN IF n = 0 THEN 0 ELSE n + 1

\* strip_html: _TAG_RE.sub('', s) with _TAG_RE = <[^>]+>
RECURSIVE strip_html(_)
strip_html(s) ==
    IF s = <<>> THEN s
    ELSE IF Head(s) = "<" /\ FirstGt(Tail(s)) > 1
         THEN strip_html(Drop(s, 1 + FirstGt(Tail(s))))
         ELSE <<Head(s)>> \o strip_html(Tail(s))

_norm_label(s) == _norm_ws(_norm_nl(s))
_norm_help(s) == _norm_nl(_norm_ws(strip_html(s)))

\* PackService._truncate; the modelled texts are ASCII, one byte a character,
\* and "..." stands for the one-character ellipsis
_truncate(s) ==
    IF Len(s) <= PACK_TEXT_LIMIT THEN s
    ELSE SubSeq(s, 1, PACK_TEXT_LIMIT - 3) \o <<"...">>

\* render_field_doc, without the datatype and model lines (columns not modelled)
render_field_doc(label_ja, model, field_name, notes_ja) ==
    <<"[field]">> \o label_ja \o <<"(", model, ".", field_name, ")">>
    \o (IF Strip(notes_ja) # <<>> THEN <<"\n", "[desc]">> \o notes_ja ELSE <<>>)

\* render_view_common_doc, without the model line
render_view_common_doc(action_display, ai_purpose_ja, help_ja_text) ==
    <<"[view]", action_display, "\n", "[purpose]">> \o ai_purpose_ja
    \o <<"\n", "[usage]">> \o help_ja_text

\* list_translated_for_pack: state='translated' AND entity = ANY(:entities)
\* ORDER BY id ASC LIMIT :limit
list_translated_for_pack(tbl, entities, limit) ==
    LET ids == SelectSeq(IdsAsc(tbl, nextTid),
                   LAMBDA i : /\ tbl[RowOfId(tbl, i)].state = "translated"
                              /\ tbl[RowOfId(tbl, i)].entity \in entities)
    IN [i \in 1..Len(Prefix(ids, limit)) |-> tbl[RowOfId(tbl, ids[i])]]

\* PortalTranslateRepo.mark_ready_for_chroma: SET updated_at = now(),
\* last_error = NULL WHERE natural_key = ANY(:nks) AND state = 'translated'
mark_ready_for_chroma(tbl, nks) ==
    [nk \in NaturalKeys |->
        IF nk \in nks /\ tbl[nk] # NoRow /\ tbl[nk].state = "translated"
        THEN [tbl[nk] EXCEPT !.last_error = Null]
        ELSE tbl[nk]]

\* field_repo batch lookup (lower-cased key match on portal_fields)
field_meta(field_name) ==
    IF Lower(field_name) \in FieldNames /\ srcFields[Lower(field_name)].present
    THEN srcFields[Lower(field_name)] ELSE NoRow

\* vc_repo.batch_lookup_by_action_xmlids: WHERE action_xmlid IN :ids
vc_meta(action_xmlid) ==
    IF action_xmlid \in ViewNames /\ srcViews[action_xmlid].present
    THEN srcViews[action_xmlid] ELSE NoRow

_SQL_UPDATE_keeps_state(tbl, nk, doc_text, source_hash, collection) ==
    [tbl EXCEPT ![nk] = [@ EXCEPT !.doc_text = doc_text,
                                  !.source_hash = source_hash,
                                  !.collection = collection]]

\* PortalChromaDocRepo._SQL_UPDATE
_SQL_UPDATE(tbl, nk, doc_text, source_hash, collection) ==
    [tbl EXCEPT ![nk] = [@ EXCEPT !.doc_text = doc_text,
                                  !.source_hash = source_hash,
                                  !.collection = collection,
                                  !.state = "queued",
                                  !.last_error = Null]]

\* PortalChromaDocRepo._SQL_INSERT: doc_id is left to its default
_SQL_INSERT(tbl, did, entity, nk, doc_text, source_hash, collection) ==
    [tbl EXCEPT ![nk] =
        [id |-> did, entity |-> entity, natural_key |-> nk, lang |-> PACK_LANG,
         doc_id |-> Null, doc_text |-> doc_text, source_hash |-> source_hash,
         collection |-> collection, state |-> "queued", last_error |-> Null]]

\* PortalChromaDocRepo.upsert(entity, natural_key, lang, doc_text, meta,
\* source_hash, collection) -> (result, doc_id), as pack calls it
doc_repo_upsert(tbl, did, entity, nk, doc_text, source_hash, collection) ==
    IF tbl[nk] = NoRow
    THEN [docs |-> _SQL_INSERT(tbl, did, entity, nk, doc_text, source_hash, collection),
          did |-> did + 1, result |-> "queued"]
    ELSE IF tbl[nk].source_hash = source_hash
    THEN [docs |-> tbl, did |-> did, result |-> "skipped_no_change"]
    ELSE [docs |-> _SQL_UPDATE(tbl, nk, doc_text, source_hash, collection),
          did |-> did, result |-> "queued"]

PackSample(acc, nk, status) ==
    IF Len(acc.r.samples) < PACK_SAMPLES_MAX
    THEN [acc EXCEPT !.r.samples = Append(@, <<nk, status>>)] ELSE acc

\* a row that fails without raising: failed += 1, a sample, continue
PackFailed(acc, nk, why) ==
    PackSample([acc EXCEPT !.r.failed = @ + 1,
                           !.out = Append(@, [nk |-> nk, outcome |-> why,
                                              doc |-> acc.docs[nk]])],
               nk, "failed")

\* the except branch of the row loop: failed += 1, self.s.rollback(), a sample.
\* The session has not committed since the run began, so the rollback returns
\* the session's view of portal_chroma_doc to the committed table.
PackRaised(acc, nk) ==
    PackSample([acc EXCEPT !.r.failed = @ + 1,
                           !.docs = docs,
                           !.out = Append(@, [nk |-> nk, outcome |-> "raised",
                                              doc |-> docs[nk]])],
               nk, "failed")

\* after doc_repo.upsert returned
PackUpserted(acc, nk, u) ==
    IF u.result = "skipped_no_change"
    THEN [acc EXCEPT !.r.skipped_no_change = @ + 1,
                     !.out = Append(@, [nk |-> nk, outcome |-> "skipped_no_change",
                                        doc |-> u.docs[nk]])]
    ELSE PackSample([acc EXCEPT !.docs = u.docs,
                                !.did = u.did,
                                !.r.queued = @ + 1,
                                !.ready = Append(@, nk),
                                !.out = Append(@, [nk |-> nk, outcome |-> "queued",
                                                   doc |-> u.docs[nk]])],
                    nk, "queued")

\* the rendering inputs of a row: content hash, document text and collection
PackDoc(r, meta, collections) ==
    IF r.entity = "field"
    THEN LET label_ja_n == _norm_label(meta.label_ja)
             notes_ja_n == _norm_help(meta.notes)
         IN [source_hash |-> _sha256(label_ja_n \o <<"\n", "\n">> \o notes_ja_n),
             doc_text |-> _truncate(render_field_doc(label_ja_n, r.natural_key[2],
                                                     r.natural_key[3], notes_ja_n)),
             collection |-> collections["field"]]
    ELSE LET ai_purpose_ja_n == _norm_label(meta.ai_purpose)
             help_ja_text_n == _norm_help(meta.help_ja)
         IN [source_hash |-> _sha256(ai_purpose_ja_n \o <<"\n", "\n">> \o help_ja_text_n),
             doc_text |-> _truncate(render_view_common_doc(r.natural_key[2],
                                        ai_purpose_ja_n, help_ja_text_n)),
             collection |-> collections["view_common"]]

\* the body of pack's row loop; processing raises for the rows in `raises`
pack_row(acc, r, ctx) ==
    LET nk == r.natural_key
        meta == IF r.entity = "field" THEN field_meta(nk[3]) ELSE vc_meta(nk[2])
    IN IF r.entity = "view_common" /\ nk[3] \notin ALLOWED_VC_TARGETS
       THEN PackFailed(acc, nk, "invalid_target")
       ELSE IF meta = NoRow THEN PackFailed(acc, nk, "meta_not_found")
       ELSE IF r.id \in ctx.raises THEN PackRaised(acc, nk)
       ELSE LET d == PackDoc(r, meta, ctx.collections)
            IN PackUpserted(acc, nk,
                   doc_repo_upsert(acc.docs, acc.did, r.entity, nk, d.doc_text,
                                   d.source_hash, d.collection))

RECURSIVE pack_rows(_, _, _)
pack_rows(acc, rows, ctx) ==
    IF rows = <<>> THEN acc
    ELSE CHOOSE out \in {pack_rows(a, Tail(rows), ctx) :
                            a \in {pack_row(acc, Head(rows), ctx)}} : TRUE

\* PackService.pack(entities, lang, collections, limit)
pack(req, raises) ==
    LET ents == IF req.entities \cap ALLOWED_ENTITIES # {}
                THEN req.entities \cap ALLOWED_ENTITIES ELSE ALLOWED_ENTITIES
        rows == list_translated_for_pack(translate, ents, req.limit)
        acc0 == [docs |-> docs, did |-> nextDid, ready |-> <<>>, out |-> <<>>,
                 r |-> [queued |-> 0, skipped_no_change |-> 0, failed |-> 0,
                        samples |-> <<>>]]
        acc == CHOOSE a \in {pack_rows(acc0, rows,
                           [raises |-> raises, collections |-> req.collections])} : TRUE
    IN [docs |-> acc.docs, did |-> acc.did,
        tbl |-> IF acc.ready # <<>>
                THEN mark_ready_for_chroma(translate, Range(acc.ready))
                ELSE translate,
        r |-> [queued |-> acc.r.queued,
               skipped_no_change |-> acc.r.skipped_no_change,
               failed |-> acc.r.failed, samples |-> acc.r.samples,
               selected |-> [i \in 1..Len(rows) |-> rows[i].natural_key],
               ready |-> acc.ready, rows |-> acc.out]]

PackEntitySets == {{}}

\* collections.get(entity, default), for a request that names no collection
PackCollections ==
    {[field |-> DEFAULT_COLLECTION_FIELD, view_common |-> DEFAULT_COLLECTION_VIEW_COMMON]}

\* POST /chroma/package: one session, committed when pack returns
\* one packaging request: the session commits when pack returns; `first`
\* tells whether the row whose processing raises is the first selected one
PackRun(first) ==
    /\ \E limit \in {1, MaxLimit}, ents \in PackEntitySets, colls \in PackCollections :
         LET req == [entities |-> ents, limit |-> limit, collections |-> colls]
             ents0 == IF ents = {} THEN ALLOWED_ENTITIES ELSE ents
             sel == list_translated_for_pack(translate, ents0, limit)
         IN \E raises \in IF first THEN {{sel[i].id} : i \in 1..Min(1, Len(sel))}
                          ELSE {{}} \cup {{sel[i].id} : i \in 2..Len(sel)} :
              \E p \in {pack(req, raises)} :
              /\ p.did <= MaxDocId + 1
              /\ docs' = p.docs
              /\ nextDid' = p.did
              /\ translate' = p.tbl
              /\ res' = Finished("pack", req, p.r, Written(translate, p.tbl))
    /\ UNCHANGED <<runs, walk, util, ex, tx, srcFields, srcViews, srcEdits, nextTid, up, now, chroma>>

\* a packaging run in which no row raises, or a row after the first one does
Pack ==
    /\ Idle
    /\ PackRun(FALSE)

\* a packaging run in which the first selected row raises
PackFirstRowRaises ==
    /\ Idle
    /\ PackRun(TRUE)

\* the packaging request a scheduler repeats: always the same limit, and no
\* row's processing raises
PackRepeat ==
    /\ Idle
    /\ \E colls \in PackCollections :
         LET req == [entities |-> {}, limit |-> RepeatLimit, collections |-> colls]
         IN \E p \in {pack(req, {})} :
              /\ p.did <= MaxDocId + 1
              /\ docs' = p.docs
              /\ nextDid' = p.did
              /\ translate' = p.tbl
              /\ res' = Finished("pack", req, p.r, Written(translate, p.tbl))
    /\ UNCHANGED <<runs, walk, util, ex, tx, srcFields, srcViews, srcEdits, nextTid, up,
                   now, chroma>>

----------------------------------------------------------------------------
(* Index upsert: services/chroma_upsert.py, services/chroma_client.py *)

ReasonLimit == 400
MarkFailedLimit == 2000
UPSERT_TIMEOUT == <<"u", "p", "s", "e", "r", "t", " ", "t", "i", "m", "e", "o", "u", "t">>
StoreError == <<"d", "o", "w", "n">>
Collections == {DEFAULT_COLLECTION_FIELD, DEFAULT_COLLECTION_VIEW_COMMON}

DocOfId(tbl, id) == CHOOSE nk \in NaturalKeys : tbl[nk] # NoRow /\ tbl[nk].id = id
HasDocId(tbl, id) == \E nk \in NaturalKeys : tbl[nk] # NoRow /\ tbl[nk].id = id

\* list_queued: state='queued' [AND collection IN :colls] ORDER BY id ASC LIMIT :limit
list_queued(tbl, collections, limit) ==
    LET ids == SelectSeq([i \in 1..(nextDid - 1) |-> i],
                   LAMBDA i : /\ HasDocId(tbl, i)
                              /\ tbl[DocOfId(tbl, i)].state = "queued"
                              /\ (collections # {} =>
                                    tbl[DocOfId(tbl, i)].collection \in collections))
    IN [i \in 1..Len(Prefix(ids, limit)) |-> tbl[DocOfId(tbl, ids[i])]]

\* _choose_document_id: doc_id first, else natural_key; a '::' id gets '::<lang>'
_choose_document_id(doc_id, natural_key, lang) ==
    IF doc_id # Null THEN doc_id[1] ELSE <<natural_key, lang>>

\* the collections of rows in the order of their first row
RECURSIVE CollOrder(_, _)
CollOrder(rows, seen) ==
    IF rows = <<>> THEN <<>>
    ELSE IF Head(rows).collection \in seen THEN CollOrder(Tail(rows), seen)
    ELSE <<Head(rows).collection>>
         \o CollOrder(Tail(rows), seen \cup {Head(rows).collection})

\* _group_by_collection: insertion-ordered buckets of rows
_group_by_collection(rows) ==
    LET order == CollOrder(rows, {})
    IN [i \in 1..Len(order) |->
          [name |-> order[i],
           docs |-> SelectSeq(rows, LAMBDA r : r.collection = order[i])]]

mark_upserted(tbl, id) ==
    [tbl EXCEPT ![DocOfId(tbl, id)] =
        [@ EXCEPT !.state = "upserted", !.last_error = Null]]

mark_failed(tbl, id, error) ==
    [tbl EXCEPT ![DocOfId(tbl, id)] =
        [@ EXCEPT !.state = "failed",
                  !.last_error = Some(Prefix(error, MarkFailedLimit))]]

UpIdle ==
    [pc |-> "idle", req |-> Null, processed |-> 0, queue |-> <<>>, coll |-> "",
     items |-> <<>>, start |-> 0, deadline |-> 0, ucount |-> 0, fcount |-> 0,
     errs |-> <<>>, wb |-> 0, upserted |-> 0, failed |-> 0, skipped |-> 0,
     errors |-> <<>>, log |-> <<>>, run |-> {}, faults |-> {}]

UpsertResult(u) ==
    [processed |-> u.processed, upserted |-> Max(0, u.upserted),
     skipped |-> Max(0, u.skipped), failed |-> Max(0, u.failed),
     errors |-> u.errors, log |-> u.log, run |-> u.run, faults |-> u.faults,
     raised |-> FALSE]

\* i_batch = ids[start : start + batch_size], positions counted from 1
i_batch(u) == SubSeq(u.items, u.start, Min(Len(u.items), u.start + EMBED_BATCH_SIZE - 1))

\* collection.upsert(ids, embeddings, documents, metadatas) took effect
StoreUpsert(store, coll, rows) ==
    [store EXCEPT ![coll] =
        [nk \in NaturalKeys |->
            IF \E i \in 1..Len(rows) : rows[i].natural_key = nk
            THEN Some((CHOOSE r \in Range(rows) : r.natural_key = nk).doc_text)
            ELSE @[nk]]]

LogEntry(u, first) ==
    [coll |-> u.coll, ids |-> {r.natural_key : r \in Range(i_batch(u))},
     t |-> now, deadline |-> u.deadline, first |-> first, second |-> "none",
     written |-> FALSE]

SetLast(log, field, v) == [log EXCEPT ![Len(log)] = [@ EXCEPT ![field] = v]]

dry_run_ignored(req) == FALSE

\* if dry_run: the run returns the counts and does nothing else
dry_run_requested(req) == req.dry_run

\* ChromaUpsertService.run up to the grouping of the queued rows
UpsertStart ==
    /\ Idle
    /\ \E colls \in {{}, {DEFAULT_COLLECTION_FIELD}}, limit \in {1, MaxDocs},
          dry_run \in BOOLEAN :
         LET req == [collections |-> colls, limit |-> limit, dry_run |-> dry_run]
             rows == list_queued(docs, colls, limit)
             u0 == [UpIdle EXCEPT !.req = req, !.processed = Len(rows)]
         IN IF Len(rows) = 0
            THEN /\ res' = Finished("chroma_upsert", req, UpsertResult(u0), {})
                 /\ UNCHANGED <<up, now>>
            ELSE IF dry_run_requested(req)
            THEN /\ res' = Finished("chroma_upsert", req,
                                    UpsertResult([u0 EXCEPT !.skipped = Len(rows)]), {})
                 /\ UNCHANGED <<up, now>>
            ELSE /\ up' = [u0 EXCEPT !.pc = "coll", !.queue = _group_by_collection(rows),
                                      !.run = {r.natural_key : r \in Range(rows)}]
                 /\ now' = 0
                 /\ res' = Finished("chroma_upsert_running", req, Null, {})
    /\ UNCHANGED <<runs, walk, util, ex, tx, srcFields, srcViews, srcEdits, translate, nextTid, docs, nextDid,
                   chroma>>

\* the next collection of the run: ensure_collection, the items, and the
\* entry into embed_and_upsert, which sets the deadline of this call
BeginCollection ==
    /\ up.pc = "coll"
    /\ up.queue # <<>>
    /\ \/ /\ up' = [up EXCEPT !.pc = "batch",
                              !.coll = Head(up.queue).name,
                              !.items = Head(up.queue).docs,
                              !.queue = Tail(up.queue),
                              !.start = 1,
                              !.deadline = now + Max(1, CHROMA_TIMEOUT_S),
                              !.ucount = 0, !.fcount = 0, !.errs = <<>>]
          /\ UNCHANGED res
       \/ \* ensure_collection raises: run is left, the request fails
          /\ up' = UpIdle
          /\ res' = Finished("chroma_upsert", up.req,
                             [UpsertResult(up) EXCEPT !.raised = TRUE], {})
    /\ UNCHANGED <<runs, walk, util, ex, tx, srcFields, srcViews, srcEdits, translate, nextTid, docs, nextDid,
                   now, chroma>>

Cid(r) == _choose_document_id(r.doc_id, r.natural_key, r.lang)

\* run, after embed_and_upsert returned: the counts are added and the errors
\* normalised to {doc_id, reason[:400]}; the state write-back begins
Returned(u) ==
    [u EXCEPT !.pc = "writeback", !.wb = 1,
              !.upserted = @ + u.ucount,
              !.failed = @ + u.fcount,
              !.errs = [i \in 1..Len(u.errs) |->
                          [doc_id |-> u.errs[i].doc_id,
                           reason |-> Prefix(u.errs[i].reason, ReasonLimit)]]]

\* the for loop of embed_and_upsert moves to the next sub-batch or returns
BatchDone(u) ==
    LET u1 == [u EXCEPT !.pc = "batch", !.start = @ + Max(1, EMBED_BATCH_SIZE)]
    IN IF u1.start > Len(u1.items) THEN Returned(u1) ELSE u1

BatchErrors(u, from, reason) ==
    [i \in 1..(Len(u.items) - from + 1) |->
        [doc_id |-> Cid(u.items[from + i - 1]), reason |-> reason]]

\* time.time() > deadline: the rest of the ids fail with "upsert timeout"
timed_out(u) ==
    Returned([u EXCEPT !.fcount = @ + (Len(u.items) - u.start + 1),
                       !.errs = @ \o BatchErrors(u, u.start, UPSERT_TIMEOUT)])

\* _try_once() returned (first attempt or retry)
attempt_ok(u) == BatchDone([u EXCEPT !.ucount = @ + Len(i_batch(u))])

give_up_after_first(u) ==
    BatchDone([u EXCEPT
        !.fcount = @ + Len(i_batch(u)),
        !.errs = @ \o [i \in 1..Len(i_batch(u)) |->
                         [doc_id |-> Cid(i_batch(u)[i]), reason |-> StoreError]]])

\* the first _try_once() raised: sleep, then the one retry
first_attempt_failed(u) == [u EXCEPT !.pc = "retry"]

\* the retry raised too: the sub-batch fails with str(e2)
retry_failed(u) ==
    BatchDone([u EXCEPT
        !.fcount = @ + Len(i_batch(u)),
        !.errs = @ \o [i \in 1..Len(i_batch(u)) |->
                         [doc_id |-> Cid(i_batch(u)[i]), reason |-> StoreError]]])

DeadlinePassed ==
    /\ up.pc = "batch"
    /\ now > up.deadline
    /\ up' = timed_out(up)
    /\ UNCHANGED <<runs, walk, util, ex, tx, srcFields, srcViews, srcEdits, translate, nextTid, docs, nextDid,
                   res, now, chroma>>

FirstAttempt ==
    /\ up.pc = "batch"
    /\ ~(now > up.deadline)
    /\ \/ /\ chroma' = StoreUpsert(chroma, up.coll, i_batch(up))
          /\ up' = [attempt_ok(up) EXCEPT !.log = Append(@, LogEntry(up, "ok"))]
       \/ /\ up' = [first_attempt_failed(up) EXCEPT
                       !.log = Append(@, LogEntry(up, "fail"))]
          /\ UNCHANGED chroma
    /\ UNCHANGED <<runs, walk, util, ex, tx, srcFields, srcViews, srcEdits, translate, nextTid, docs, nextDid,
                   res, now>>

Retry ==
    /\ up.pc = "retry"
    /\ \/ /\ chroma' = StoreUpsert(chroma, up.coll, i_batch(up))
          /\ up' = [attempt_ok(up) EXCEPT !.log = SetLast(@, "second", "ok")]
       \/ /\ up' = [retry_failed(up) EXCEPT !.log = SetLast(@, "second", "fail")]
          /\ UNCHANGED chroma
    /\ UNCHANGED <<runs, walk, util, ex, tx, srcFields, srcViews, srcEdits, translate, nextTid, docs, nextDid,
                   res, now>>

\* reason_by_id: the last error recorded for the document id
ReasonOf(errs, cid) ==
    errs[CHOOSE i \in 1..Len(errs) :
            /\ errs[i].doc_id = cid
            /\ \A j \in (i + 1)..Len(errs) : errs[j].doc_id # cid].reason

write_back_all_upserted(tbl, u) == mark_upserted(tbl, u.items[u.wb].id)

\* one turn of the state write-back loop: mark and commit one row
write_back(tbl, u) ==
    LET r == u.items[u.wb]
    IN IF \E i \in 1..Len(u.errs) : u.errs[i].doc_id = Cid(r)
       THEN mark_failed(tbl, r.id, ReasonOf(u.errs, Cid(r)))
       ELSE mark_upserted(tbl, r.id)

WriteBack ==
    /\ up.pc = "writeback"
    /\ up.wb <= Len(up.items)
    /\ docs' = write_back(docs, up)
    /\ up' = [up EXCEPT !.wb = @ + 1]
    /\ UNCHANGED <<runs, walk, util, ex, tx, srcFields, srcViews, srcEdits, translate, nextTid, nextDid,
                   res, now, chroma>>

POST_UPSERT_FAILED == <<"p", "o", "s", "t", "-", "u", "p", "s", "e", "r", "t">>
MARK_FAILED_EXCEPTION == <<"m", "a", "r", "k", "_", "f", "a", "i", "l", "e", "d">>

\* what the database does to the statements of one turn of the write-back:
\* the UPDATE raises, the UPDATE and the fall-back mark_failed both raise, or
\* the commit fails (which _commit_quiet only logs)
WriteBackFaults == {"mark_raises", "fallback_raises", "commit_fails"}

\* one turn of the state write-back loop when the database fails: the row
\* and the counts the except branches leave
write_back_raises(tbl, u, fault) ==
    LET r == u.items[u.wb]
        next == [u EXCEPT !.wb = @ + 1]
    IN IF fault = "commit_fails" THEN [tbl |-> tbl, u |-> next]
       ELSE IF \E i \in 1..Len(u.errs) : u.errs[i].doc_id = Cid(r)
       THEN \* mark_failed raised: rollback, one more error record
            [tbl |-> tbl,
             u |-> [next EXCEPT !.errors = Append(@, [doc_id |-> Cid(r),
                                                     reason |-> MARK_FAILED_EXCEPTION])]]
       ELSE \* mark_upserted raised: rollback, mark_failed instead, failed += 1
            [tbl |-> IF fault = "mark_raises"
                     THEN mark_failed(tbl, r.id, POST_UPSERT_FAILED) ELSE tbl,
             u |-> [next EXCEPT !.failed = @ + 1,
                                !.errors = Append(@, [doc_id |-> Cid(r),
                                                      reason |-> POST_UPSERT_FAILED])]]

WriteBackRaises ==
    /\ up.pc = "writeback"
    /\ up.wb <= Len(up.items)
    /\ \E fault \in WriteBackFaults :
         \E out \in {write_back_raises(docs, up, fault)} :
            /\ docs' = out.tbl
            /\ up' = [out.u EXCEPT !.faults = @ \cup {up.items[up.wb].natural_key}]
    /\ UNCHANGED <<runs, walk, util, ex, tx, srcFields, srcViews, srcEdits, translate,
                   nextTid, nextDid, res, now, chroma>>

\* errors.extend(errs_from_batch); on to the next collection
EndCollection ==
    /\ up.pc = "writeback"
    /\ up.wb > Len(up.items)
    /\ up' = [up EXCEPT !.pc = "coll",
                        !.errors = @ \o up.errs,
                        !.log = [i \in 1..Len(@) |-> [@[i] EXCEPT !.written = TRUE]]]
    /\ UNCHANGED <<runs, walk, util, ex, tx, srcFields, srcViews, srcEdits, translate, nextTid, docs, nextDid,
                   res, now, chroma>>

UpsertFinish ==
    /\ up.pc = "coll"
    /\ up.queue = <<>>
    /\ res' = Finished("chroma_upsert", up.req, UpsertResult(up), {})
    /\ up' = UpIdle
    /\ UNCHANGED <<runs, walk, util, ex, tx, srcFields, srcViews, srcEdits, translate, nextTid, docs, nextDid,
                   now, chroma>>

\* the wall clock advances while a run is in flight
Tick ==
    /\ up.pc # "idle"
    /\ now < MaxTime
    /\ now' = now + 1
    /\ UNCHANGED <<runs, walk, util, ex, tx, srcFields, srcViews, srcEdits, translate, nextTid, docs, nextDid,
                   res, up, chroma>>

\* the process is killed during a run: what is not committed is lost
Kill ==
    /\ up.pc # "idle"
    /\ up' = UpIdle
    /\ res' = Finished("killed", up.req, [UpsertResult(up) EXCEPT !.raised = TRUE], {})
    /\ UNCHANGED <<runs, walk, util, ex, tx, srcFields, srcViews, srcEdits, translate, nextTid, docs, nextDid,
                   now, chroma>>

----------------------------------------------------------------------------
(* Natural key codec: utils/natural_key.py *)

LowerLetters == {"a", "b", "c", "d", "e", "f", "g", "h", "i", "j", "k", "l", "m",
                 "n", "o", "p", "q", "r", "s", "t", "u", "v", "w", "x", "y", "z"}
Digits == {"0", "1", "2", "3", "4", "5", "6", "7", "8", "9"}

\* str.lower() on the characters the inputs are made of
LowerChar(c) ==
    CASE c = "A" -> "a" [] c = "B" -> "b" [] c = "H" -> "h" [] c = "M" -> "m"
      [] OTHER -> c

LowerText(s) == [i \in 1..Len(s) |-> LowerChar(s[i])]

\* '::' in part
HasSep(part) == \E i \in 1..(Len(part) - 1) : part[i] = ":" /\ part[i + 1] = ":"

\* re.compile(r"^[class]+$").match(s): '$' also matches before a final newline
re_match(class, s) ==
    LET body == IF Len(s) >= 2 /\ s[Len(s)] = "\n" THEN SubSeq(s, 1, Len(s) - 1)
                ELSE s
    IN /\ body # <<>>
       /\ \A i \in 1..Len(body) : body[i] \in class

_model_re == LowerLetters \cup Digits \cup {".", "_"}
_field_re == LowerLetters \cup Digits \cup {"_"}
_xmlid_re == LowerLetters \cup Digits \cup {".", "_"}

_norm_part_keeps_case(part) == Strip(part)

\* (part or '').strip().lower()
_norm_part(part) == LowerText(Strip(part))

Sep == <<":", ":">>
FieldText == <<"f", "i", "e", "l", "d">>
ViewCommonText == <<"v", "i", "e", "w", "_", "c", "o", "m", "m", "o", "n">>
AiPurposeText == <<"a", "i", "_", "p", "u", "r", "p", "o", "s", "e">>
HelpText == <<"h", "e", "l", "p">>

build_field_key(model, field_name) ==
    LET m == _norm_part(model)
        f == _norm_part(field_name)
    IN IF HasSep(m) \/ HasSep(f) THEN Error("Parts must not contain '::'")
       ELSE IF ~re_match(_model_re, m) THEN Error("Invalid model")
       ELSE IF ~re_match(_field_re, f) THEN Error("Invalid field name")
       ELSE Value(FieldText \o Sep \o m \o Sep \o f)

build_view_common_key(action_xmlid, target) ==
    LET x == _norm_part(action_xmlid)
    IN IF HasSep(x) THEN Error("Parts must not contain '::'")
       ELSE IF ~re_match(_xmlid_re, x) THEN Error("Invalid action_xmlid")
       ELSE IF target \notin {AiPurposeText, HelpText}
       THEN Error("target must be 'ai_purpose' or 'help'")
       ELSE Value(ViewCommonText \o Sep \o x \o Sep \o target)

\* the caller gets the key or the error
BuildFieldKey ==
    /\ util.fn = "build_field_key"
    /\ ~util.done
    /\ util' = [util EXCEPT !.done = TRUE,
                            !.out = build_field_key(util.args[1], util.args[2])]
    /\ UNCHANGED <<runs, walk, srcFields, srcViews, srcEdits, translate, nextTid, docs,
                   nextDid,
                   res, up, now, chroma, tx, ex>>

BuildViewCommonKey ==
    /\ util.fn = "build_view_common_key"
    /\ ~util.done
    /\ util' = [util EXCEPT !.done = TRUE,
                            !.out = build_view_common_key(util.args[1], util.args[2])]
    /\ UNCHANGED <<runs, walk, srcFields, srcViews, srcEdits, translate, nextTid, docs,
                   nextDid,
                   res, up, now, chroma, tx, ex>>

\* the natural keys extraction writes, as texts: extract_field's
\* nk = f"field::{model}::{field_name}" and extract_view_common's
\* nk = f"view_common::{row['action_xmlid']}::<target>", from the names as
\* the source row holds them
field_nk(model, field_name) == FieldText \o Sep \o model \o Sep \o field_name

view_common_nk(action_xmlid, target) == ViewCommonText \o Sep \o action_xmlid \o Sep \o target

\* extraction reaches the key of a field row
ExtractFieldKey ==
    /\ util.fn = "extract_field"
    /\ ~util.done
    /\ util' = [util EXCEPT !.done = TRUE,
                            !.out = Value(field_nk(util.args[1], util.args[2]))]
    /\ UNCHANGED <<runs, walk, srcFields, srcViews, srcEdits, translate, nextTid, docs,
                   nextDid, res, up, now, chroma, tx, ex>>

\* extraction reaches the key of a target of a view_common row
ExtractViewCommonKey ==
    /\ util.fn = "extract_view_common"
    /\ ~util.done
    /\ util' = [util EXCEPT !.done = TRUE,
                            !.out = Value(view_common_nk(util.args[1], util.args[2]))]
    /\ UNCHANGED <<runs, walk, srcFields, srcViews, srcEdits, translate, nextTid, docs,
                   nextDid, res, up, now, chroma, tx, ex>>

----------------------------------------------------------------------------
(* UTF-8 truncation: PackService._truncate, _safe_truncate_utf8 *)

\* A text is a sequence of characters; a character takes one to four bytes:
\* "a", e acute (U+00E9), hiragana a (U+3042), an emoji (U+1F600).
Ellipsis == "..."
Utf8Width(c) ==
    CASE c = "a" -> 1 [] c = "U+00E9" -> 2 [] c = "U+3042" -> 3 [] c = Ellipsis -> 3
      [] OTHER -> 4

\* the bytes of one character: its lead byte, then its continuation bytes
\* (the bytes b with b & 0xC0 = 0x80)
CharBytes(c) ==
    [k \in 1..Utf8Width(c) |-> [ch |-> c, cont |-> k > 1]]

\* str.encode("utf-8")
RECURSIVE encode_utf8(_)
encode_utf8(text) ==
    IF text = <<>> THEN <<>>
    ELSE CharBytes(Head(text)) \o encode_utf8(Tail(text))

\* bytes.decode("utf-8", errors="ignore"): a complete sequence gives its
\* character, any other byte is dropped
RECURSIVE decode_ignore(_)
decode_ignore(b) ==
    IF b = <<>> THEN <<>>
    ELSE LET w == Utf8Width(Head(b).ch)
         IN IF /\ ~Head(b).cont
               /\ Len(b) >= w
               /\ \A k \in 2..w : b[k].cont
            THEN <<Head(b).ch>> \o decode_ignore(SubSeq(b, w + 1, Len(b)))
            ELSE decode_ignore(Tail(b))

\* data[:n], a negative n counting from the end
SliceTo(data, n) ==
    IF n >= 0 THEN SubSeq(data, 1, Min(n, Len(data)))
    ELSE SubSeq(data, 1, Max(0, Len(data) + n))

\* while clipped and (clipped[-1] & 0xC0) == 0x80: clipped = clipped[:-1]
RECURSIVE DropContinuation(_)
DropContinuation(clipped) ==
    IF clipped # <<>> /\ clipped[Len(clipped)].cont
    THEN DropContinuation(SubSeq(clipped, 1, Len(clipped) - 1))
    ELSE clipped

\* PackService._truncate(s), with self._text_limit() = text_limit
PackService_truncate(s, text_limit) ==
    LET data == encode_utf8(s)
    IN IF Len(data) <= text_limit THEN s
       ELSE decode_ignore(DropContinuation(SliceTo(data, text_limit - 3)))
            \o <<Ellipsis>>

\* _safe_truncate_utf8(text, max_bytes)
_safe_truncate_utf8(text, max_bytes) ==
    IF text = <<>> THEN <<>>
    ELSE LET b == encode_utf8(text)
         IN IF Len(b) <= max_bytes THEN text
            ELSE decode_ignore(SliceTo(b, max_bytes))

Truncate ==
    /\ util.fn = "_truncate"
    /\ ~util.done
    /\ util' = [util EXCEPT !.done = TRUE,
                            !.out = Value(PackService_truncate(util.args[1],
                                                               util.args[2]))]
    /\ UNCHANGED <<runs, walk, srcFields, srcViews, srcEdits, translate, nextTid, docs,
                   nextDid,
                   res, up, now, chroma, tx, ex>>

SafeTruncateUtf8 ==
    /\ util.fn = "_safe_truncate_utf8"
    /\ ~util.done
    /\ util' = [util EXCEPT !.done = TRUE,
                            !.out = Value(_safe_truncate_utf8(util.args[1],
                                                              util.args[2]))]
    /\ UNCHANGED <<runs, walk, srcFields, srcViews, srcEdits, translate, nextTid, docs,
                   nextDid,
                   res, up, now, chroma, tx, ex>>

----------------------------------------------------------------------------
(* Keyset cursor codec: utils/cursor.py *)

\* the characters of the tokens and of the JSON texts, with their codes
AsciiCode ==
    ("{" :> 123) @@ ("}" :> 125) @@ ("\"" :> 34) @@ (":" :> 58) @@ ("[" :> 91)
    @@ ("]" :> 93) @@ (" " :> 32) @@ ("?" :> 63) @@ ("!" :> 33) @@ ("=" :> 61)
    @@ ("-" :> 45) @@ ("_" :> 95) @@ ("a" :> 97) @@ ("b" :> 98) @@ ("c" :> 99)
    @@ ("d" :> 100) @@ ("e" :> 101) @@ ("f" :> 102) @@ ("g" :> 103) @@ ("h" :> 104)
    @@ ("i" :> 105) @@ ("j" :> 106) @@ ("k" :> 107) @@ ("l" :> 108) @@ ("m" :> 109)
    @@ ("n" :> 110) @@ ("o" :> 111) @@ ("p" :> 112) @@ ("q" :> 113) @@ ("r" :> 114)
    @@ ("s" :> 115) @@ ("t" :> 116) @@ ("u" :> 117) @@ ("v" :> 118) @@ ("w" :> 119)
    @@ ("x" :> 120) @@ ("y" :> 121) @@ ("z" :> 122) @@ ("A" :> 65) @@ ("B" :> 66)
    @@ ("C" :> 67) @@ ("D" :> 68) @@ ("E" :> 69) @@ ("F" :> 70) @@ ("G" :> 71)
    @@ ("H" :> 72) @@ ("I" :> 73) @@ ("J" :> 74) @@ ("K" :> 75) @@ ("L" :> 76)
    @@ ("M" :> 77) @@ ("N" :> 78) @@ ("O" :> 79) @@ ("P" :> 80) @@ ("Q" :> 81)
    @@ ("R" :> 82) @@ ("S" :> 83) @@ ("T" :> 84) @@ ("U" :> 85) @@ ("V" :> 86)
    @@ ("W" :> 87) @@ ("X" :> 88) @@ ("Y" :> 89) @@ ("Z" :> 90) @@ ("0" :> 48)
    @@ ("1" :> 49) @@ ("2" :> 50) @@ ("3" :> 51) @@ ("4" :> 52) @@ ("5" :> 53)
    @@ ("6" :> 54) @@ ("7" :> 55) @@ ("8" :> 56) @@ ("9" :> 57)

\* str.encode(): the texts encoded are ASCII
str_encode(text) == [i \in 1..Len(text) |-> AsciiCode[text[i]]]

\* bytes.decode(): a byte over 127 is no ASCII text (the texts parsed are);
\* a byte whose character is not in the table reads as "?"
bytes_decode(b) ==
    IF \E i \in 1..Len(b) : b[i] > 127 THEN Error("UnicodeDecodeError")
    ELSE Value([i \in 1..Len(b) |->
                  IF \E c \in DOMAIN AsciiCode : AsciiCode[c] = b[i]
                  THEN CHOOSE c \in DOMAIN AsciiCode : AsciiCode[c] = b[i]
                  ELSE "?"])

\* the URL-safe base64 alphabet, value v at position v + 1
B64Alphabet ==
    <<"A", "B", "C", "D", "E", "F", "G", "H", "I", "J", "K", "L", "M",
      "N", "O", "P", "Q", "R", "S", "T", "U", "V", "W", "X", "Y", "Z",
      "a", "b", "c", "d", "e", "f", "g", "h", "i", "j", "k", "l", "m",
      "n", "o", "p", "q", "r", "s", "t", "u", "v", "w", "x", "y", "z",
      "0", "1", "2", "3", "4", "5", "6", "7", "8", "9", "-", "_">>

B64Char(v) == B64Alphabet[v + 1]

\* the value of a character in the decoder's table ('+' and '/' keep their
\* standard values), or 64 when the character is not in the alphabet
B64Value(c) ==
    IF c = "+" THEN 62
    ELSE IF c = "/" THEN 63
    ELSE IF \E i \in 1..64 : B64Alphabet[i] = c
    THEN (CHOOSE i \in 1..64 : B64Alphabet[i] = c) - 1
    ELSE 64

\* urlsafe_b64encode(b)
RECURSIVE urlsafe_b64encode(_)
urlsafe_b64encode(b) ==
    IF b = <<>> THEN <<>>
    ELSE IF Len(b) = 1
    THEN <<B64Char(b[1] \div 4), B64Char((b[1] % 4) * 16), "=", "=">>
    ELSE IF Len(b) = 2
    THEN <<B64Char(b[1] \div 4), B64Char((b[1] % 4) * 16 + b[2] \div 16),
           B64Char((b[2] % 16) * 4), "=">>
    ELSE <<B64Char(b[1] \div 4), B64Char((b[1] % 4) * 16 + b[2] \div 16),
           B64Char((b[2] % 16) * 4 + b[3] \div 64), B64Char(b[3] % 64)>>
         \o urlsafe_b64encode(SubSeq(b, 4, Len(b)))

\* the bytes of a run of 6-bit values: three bytes for four values, one byte
\* for a last two, two bytes for a last three
RECURSIVE SextetBytes(_)
SextetBytes(v) ==
    IF Len(v) < 2 THEN <<>>
    ELSE IF Len(v) = 2 THEN <<v[1] * 4 + v[2] \div 16>>
    ELSE IF Len(v) = 3
    THEN <<v[1] * 4 + v[2] \div 16, (v[2] % 16) * 16 + v[3] \div 4>>
    ELSE <<v[1] * 4 + v[2] \div 16, (v[2] % 16) * 16 + v[3] \div 4,
           (v[3] % 4) * 64 + v[4]>>
         \o SextetBytes(SubSeq(v, 5, Len(v)))

\* binascii.a2b_base64, not strict: characters outside the alphabet are
\* dropped, a complete run of padding ends the input, and data left in an
\* incomplete group of four is an error
RECURSIVE a2b_base64(_, _, _)
a2b_base64(s, v, pads) ==
    IF s = <<>>
    THEN IF (Len(v) % 4) # 0 THEN Error("binascii.Error") ELSE Value(SextetBytes(v))
    ELSE IF Head(s) = "="
    THEN IF (Len(v) % 4) >= 2 /\ (Len(v) % 4) + pads + 1 >= 4
         THEN Value(SextetBytes(v))
         ELSE a2b_base64(Tail(s), v, pads + 1)
    ELSE IF B64Value(Head(s)) = 64 THEN a2b_base64(Tail(s), v, pads)
    ELSE a2b_base64(Tail(s), Append(v, B64Value(Head(s))), 0)

urlsafe_b64decode(s) == a2b_base64(s, <<>>, 0)

int_str_last_digit(n) == <<B64Char(52 + (n % 10))>>

\* str(n) for n >= 0: the decimal digits
RECURSIVE int_str(_)
int_str(n) ==
    IF n < 10 THEN <<B64Char(52 + n)>>
    ELSE int_str(n \div 10) \o <<B64Char(52 + (n % 10))>>

IsDigit(c) == c \in Digits

\* int(text) for a text of decimal digits
RECURSIVE str_int(_)
str_int(t) ==
    IF t = <<>> THEN 0
    ELSE 10 * str_int(SubSeq(t, 1, Len(t) - 1)) + (B64Value(t[Len(t)]) - 52)

LastIdPrefix == <<"{", "\"", "l", "a", "s", "t", "_", "i", "d", "\"", ":", " ">>

\* json.dumps({"last_id": n})
json_dumps(n) == LastIdPrefix \o int_str(n) \o <<"}">>

\* a JSON number with no sign, fraction or exponent
IsIntLiteral(t) ==
    /\ t # <<>>
    /\ \A i \in 1..Len(t) : IsDigit(t[i])
    /\ (Len(t) > 1 => t[1] # "0")

\* json.loads(text) for the texts the tokens decode to: an object holding
\* last_id (an integer, a string or null), the empty object, another JSON
\* value, or no JSON at all
json_loads(text) ==
    LET t == Strip(text)
        body == SubSeq(t, Len(LastIdPrefix) + 1, Len(t) - 1)
        keyed == /\ Len(t) > Len(LastIdPrefix) + 1
                 /\ SubSeq(t, 1, Len(LastIdPrefix)) = LastIdPrefix
                 /\ t[Len(t)] = "}"
    IN IF t = <<"{", "}">> THEN Value([object |-> TRUE, has |-> FALSE])
       ELSE IF keyed /\ IsIntLiteral(body)
       THEN Value([object |-> TRUE, has |-> TRUE, type |-> "int",
                   v |-> str_int(body)])
       ELSE IF keyed /\ body = <<"n", "u", "l", "l">>
       THEN Value([object |-> TRUE, has |-> TRUE, type |-> "null"])
       ELSE IF /\ keyed /\ Len(body) >= 2 /\ body[1] = "\"" /\ body[Len(body)] = "\""
               /\ \A i \in 2..(Len(body) - 1) : body[i] \in LowerLetters \cup Digits
       THEN Value([object |-> TRUE, has |-> TRUE, type |-> "str",
                   v |-> SubSeq(body, 2, Len(body) - 1)])
       ELSE IF IsIntLiteral(t) \/ t = <<"[", "1", "]">>
       THEN Value([object |-> FALSE])
       ELSE Error("JSONDecodeError")

\* int(d.get("last_id", 0))
last_id_int(d) ==
    IF ~d.object THEN Error("AttributeError")
    ELSE IF ~d.has THEN Value(0)
    ELSE IF d.type = "int" THEN Value(d.v)
    ELSE IF d.type = "str"
    THEN IF d.v # <<>> /\ \A i \in 1..Len(d.v) : IsDigit(d.v[i])
         THEN Value(str_int(d.v)) ELSE Error("ValueError")
    ELSE Error("TypeError")

encode_last_id_cursor(last_id) == urlsafe_b64encode(str_encode(json_dumps(last_id)))

\* decode_last_id_cursor(cursor): cursor is Null (None) or Some(token)
decode_last_id_cursor(cursor) ==
    IF cursor = Null \/ cursor[1] = <<>> THEN Value(0)
    ELSE LET b == urlsafe_b64decode(cursor[1])
             t == IF b.raised THEN b ELSE bytes_decode(b.value)
             d == IF t.raised THEN t ELSE json_loads(t.value)
             n == IF d.raised THEN d ELSE last_id_int(d.value)
         IN IF n.raised THEN Value(0) ELSE n

EncodeLastIdCursor ==
    /\ util.fn = "encode_last_id_cursor"
    /\ ~util.done
    /\ util' = [util EXCEPT !.done = TRUE,
                            !.out = Value(encode_last_id_cursor(util.args[1]))]
    /\ UNCHANGED <<runs, walk, srcFields, srcViews, srcEdits, translate, nextTid, docs,
                   nextDid,
                   res, up, now, chroma, tx, ex>>

\* the token that was handed out comes back as the cursor of the next page
CursorComesBack ==
    /\ util.fn = "encode_last_id_cursor"
    /\ util.done
    /\ util' = Call("decode_last_id_cursor",
                    <<Some(util.out.value), "encoded", util.args[1]>>)
    /\ UNCHANGED <<runs, walk, srcFields, srcViews, srcEdits, translate, nextTid, docs,
                   nextDid,
                   res, up, now, chroma, tx, ex>>

DecodeLastIdCursor ==
    /\ util.fn = "decode_last_id_cursor"
    /\ ~util.done
    /\ util' = [util EXCEPT !.done = TRUE,
                            !.out = decode_last_id_cursor(util.args[1])]
    /\ UNCHANGED <<runs, walk, srcFields, srcViews, srcEdits, translate, nextTid, docs,
                   nextDid,
                   res, up, now, chroma, tx, ex>>

----------------------------------------------------------------------------
(* Keyset listing: repos/base_core.py, repos/portal_chroma_doc_repo.py *)

\* A listed table is a function from the ids 1..MaxRowId to the state column
\* of the row with that id, or Absent where no row has the id (ids are a
\* serial column: positive, with gaps where rows were deleted).
Absent == "absent"

\* the ids of the rows the WHERE clauses keep: an equality filter that is
\* None (Null) adds no clause
Matching(tbl, filter) ==
    {i \in DOMAIN tbl : /\ tbl[i] # Absent
                        /\ (filter = Null \/ tbl[i] = filter[1])}

\* ORDER BY id ASC LIMIT limit
RECURSIVE OrderByIdLimit(_, _)
OrderByIdLimit(ids, limit) ==
    IF ids = {} \/ limit = 0 THEN <<>>
    ELSE LET m == CHOOSE i \in ids : \A j \in ids : i <= j
         IN <<m>> \o OrderByIdLimit(ids \ {m}, limit - 1)

\* the variant that selects id >= last_id
list_keyset_from(tbl, limit, cursor, eq_filter) ==
    LET last_id == decode_last_id_cursor(cursor).value
        items == OrderByIdLimit({i \in Matching(tbl, eq_filter) : i >= last_id}, limit)
    IN [items |-> items,
        next_cursor |-> IF items # <<>>
                        THEN Some(encode_last_id_cursor(items[Len(items)]))
                        ELSE Null]

\* BaseCoreRepo.list_keyset: cursor is Null or Some(token); the page is the
\* ids of the items
list_keyset(tbl, limit, cursor, eq_filter) ==
    LET last_id == decode_last_id_cursor(cursor).value
        items == OrderByIdLimit({i \in Matching(tbl, eq_filter) : i > last_id}, limit)
    IN [items |-> items,
        next_cursor |-> IF items # <<>>
                        THEN Some(encode_last_id_cursor(items[Len(items)]))
                        ELSE Null]

\* PortalChromaDocRepo.list_keyset: cursor is Null or Some(id); a cursor of 0
\* is falsy and adds no clause
chroma_doc_list_keyset(tbl, status, limit, cursor) ==
    LET rows == OrderByIdLimit({i \in Matching(tbl, status) :
                                   cursor \in {Null, Some(0)} \/ i > cursor[1]}, limit)
    IN [items |-> rows,
        next_cursor |-> IF rows # <<>> /\ Len(rows) = limit
                        THEN Some(rows[Len(rows)]) ELSE Null]

\* the client's record of a call: the cursor it sent and the page it got
Paged(w, page) ==
    [w EXCEPT !.calls = Append(w.calls, [cursor |-> w.cursor, items |-> page.items]),
              !.cursor = page.next_cursor,
              !.pc = IF page.next_cursor = Null THEN "done" ELSE "paging"]

\* one call of the client to a BaseCoreRepo listing, with the cursor the
\* call before returned
ListKeyset ==
    /\ walk.pc = "paging"
    /\ walk.repo = "base_core"
    /\ Len(walk.calls) <= MaxRowId + 1
    /\ walk' = Paged(walk, list_keyset(walk.table, walk.limit, walk.cursor, walk.filter))
    /\ UNCHANGED <<runs, util, srcFields, srcViews, srcEdits, translate, nextTid, docs,
                   nextDid, res, up, now, chroma, tx, ex>>

\* one call of the client to the document listing
ChromaDocListKeyset ==
    /\ walk.pc = "paging"
    /\ walk.repo = "chroma_doc"
    /\ Len(walk.calls) <= MaxRowId + 1
    /\ walk' = Paged(walk, chroma_doc_list_keyset(walk.table, walk.filter, walk.limit,
                                                  walk.cursor))
    /\ UNCHANGED <<runs, util, srcFields, srcViews, srcEdits, translate, nextTid, docs,
                   nextDid, res, up, now, chroma, tx, ex>>

----------------------------------------------------------------------------
(* Specifications *)

InitField == [present |-> TRUE, label_ja |-> <<"a">>, label_en |-> <<>>, notes |-> <<>>]
InitView == [present |-> TRUE, ai_purpose |-> <<"a">>, ai_en |-> <<>>,
             help_ja |-> <<"b">>, help_en |-> <<>>]
InitRes == [op |-> "init", req |-> Null, out |-> Null, written |-> {}]

Init ==
    /\ srcFields = [f \in FieldNames |-> InitField]
    /\ srcViews = [a \in ViewNames |-> InitView]
    /\ srcEdits = 0
    /\ translate = [nk \in NaturalKeys |-> NoRow]
    /\ nextTid = 1
    /\ docs = [nk \in NaturalKeys |-> NoRow]
    /\ nextDid = 1
    /\ res = InitRes
    /\ up = UpIdle
    /\ now = 0
    /\ chroma = [c \in Collections |-> [nk \in NaturalKeys |-> Null]]
    /\ tx = TxIdle
    /\ ex = [c \in Calls |-> ExIdle]
    /\ runs = [c \in Calls |-> RunIdle]
    /\ walk = NoWalk
    /\ util = NoCall

\* the three units of the initial source rows, in extraction order
InitUnits ==
    <<[entity |-> "field", nk |-> FieldKey(MODEL, "f1"),
       text |-> FieldSrcTextOf(InitField)],
      [entity |-> "view_common", nk |-> ViewKey("a1", "ai_purpose"),
       text |-> _normalize_plain(InitView.ai_purpose)],
      [entity |-> "view_common", nk |-> ViewKey("a1", "help"),
       text |-> _normalize_plain(InitView.help_ja)]>>

\* portal_translate after the units were extracted and translated
TranslatedUnits ==
    [nk \in NaturalKeys |->
        LET i == CHOOSE j \in 1..Len(InitUnits) : InitUnits[j].nk = nk
            u == InitUnits[i]
        IN [id |-> i, entity |-> u.entity, natural_key |-> nk,
            source_text |-> u.text,
            translated_text |-> Some(Translated(_trim(u.text))),
            source_hash |-> _sha256(u.text), state |-> "translated",
            last_error |-> Null, model |-> MODEL]]

\* portal_chroma_doc after the first n translated units were packaged
QueuedUnits(n, collections) ==
    [nk \in NaturalKeys |->
        LET i == CHOOSE j \in 1..Len(InitUnits) : InitUnits[j].nk = nk
            d == PackDoc(TranslatedUnits[nk],
                         IF InitUnits[i].entity = "field" THEN InitField ELSE InitView,
                         collections)
        IN IF i > n THEN NoRow
           ELSE [id |-> i, entity |-> InitUnits[i].entity, natural_key |-> nk,
                 lang |-> PACK_LANG, doc_id |-> Null, doc_text |-> d.doc_text,
                 source_hash |-> d.source_hash, collection |-> d.collection,
                 state |-> "queued", last_error |-> Null]]

InitOutcomes == {<<"queued", "queued", "queued">>, <<"upserted", "failed", "queued">>,
                 <<"failed", "upserted", "upserted">>}

\* the outcomes an index-upsert run leaves on a queued document
Indexed(tbl, id, outcome) ==
    CASE outcome = "upserted" -> mark_upserted(tbl, id)
      [] outcome = "failed" -> mark_failed(tbl, id, StoreError)
      [] OTHER -> tbl

\* the state once every unit is extracted and translated, and then either
\* not packaged yet or packaged and taken through index-upsert runs
InitPack ==
    /\ srcFields = [f \in FieldNames |-> InitField]
    /\ srcViews = [a \in ViewNames |-> InitView]
    /\ srcEdits = 0
    /\ translate = TranslatedUnits
    /\ nextTid = Len(InitUnits) + 1
    /\ \/ docs = [nk \in NaturalKeys |-> NoRow] /\ nextDid = 1
       \/ /\ \E o \in InitOutcomes :
                docs = Indexed(Indexed(Indexed(
                           QueuedUnits(Len(InitUnits),
                               [field |-> DEFAULT_COLLECTION_FIELD,
                                view_common |-> DEFAULT_COLLECTION_VIEW_COMMON]),
                           1, o[1]), 2, o[2]), 3, o[3])
          /\ nextDid = Len(InitUnits) + 1
    /\ res = InitRes
    /\ up = UpIdle
    /\ now = 0
    /\ chroma = [c \in Collections |-> [nk \in NaturalKeys |-> Null]]
    /\ tx = TxIdle
    /\ ex = [c \in Calls |-> ExIdle]
    /\ runs = [c \in Calls |-> RunIdle]
    /\ walk = NoWalk
    /\ util = NoCall

\* the state once the units are packaged as well
InitUpsert ==
    /\ srcFields = [f \in FieldNames |-> InitField]
    /\ srcViews = [a \in ViewNames |-> InitView]
    /\ srcEdits = 0
    /\ translate = TranslatedUnits
    /\ nextTid = Len(InitUnits) + 1
    /\ \E n \in 1..Min(MaxDocs, Len(InitUnits)), c \in PackCollections :
         /\ docs = QueuedUnits(n, c)
         /\ nextDid = n + 1
    /\ res = InitRes
    /\ up = UpIdle
    /\ now = 0
    /\ chroma = [c \in Collections |-> [nk \in NaturalKeys |-> Null]]
    /\ tx = TxIdle
    /\ ex = [c \in Calls |-> ExIdle]
    /\ runs = [c \in Calls |-> RunIdle]
    /\ walk = NoWalk
    /\ util = NoCall

\* extraction, translation and packaging calls over a source that is edited;
\* the packaging run whose first row raises is left to SpecPack
Next ==
    \/ EditSource
    \/ ExtractField
    \/ ExtractViewCommon
    \/ RunTranslate
    \/ Pack

Spec == Init /\ [][Next]_vars

\* packaging runs over translated rows whose source is edited
NextPack ==
    \/ EditSource
    \/ Pack
    \/ PackFirstRowRaises

SpecPack == InitPack /\ [][NextPack]_vars

\* portal_translate when the units in `done` are translated and the others
\* are still pending
PartlyTranslated(done) ==
    [nk \in NaturalKeys |->
        IF nk \in done THEN TranslatedUnits[nk]
        ELSE [TranslatedUnits[nk] EXCEPT !.state = "pending",
                                         !.translated_text = Null]]

\* nothing is packaged yet; some of the units are translated
InitRepeat ==
    /\ srcFields = [f \in FieldNames |-> InitField]
    /\ srcViews = [a \in ViewNames |-> InitView]
    /\ srcEdits = 0
    /\ \E done \in SUBSET NaturalKeys : translate = PartlyTranslated(done)
    /\ nextTid = Len(InitUnits) + 1
    /\ docs = [nk \in NaturalKeys |-> NoRow]
    /\ nextDid = 1
    /\ res = InitRes
    /\ up = UpIdle
    /\ now = 0
    /\ chroma = [c \in Collections |-> [nk \in NaturalKeys |-> Null]]
    /\ tx = TxIdle
    /\ ex = [c \in Calls |-> ExIdle]
    /\ runs = [c \in Calls |-> RunIdle]
    /\ walk = NoWalk
    /\ util = NoCall

\* the scheduler calls the packaging route again and again, while the
\* importer may edit the source
NextRepeat ==
    \/ EditSource
    \/ PackRepeat

\* every request of the scheduler is served
SpecRepeat == InitRepeat /\ [][NextRepeat]_vars /\ WF_vars(PackRepeat)

\* a client about to list a table from the start: any rows, either
\* repository, a page size and a filter on the state column
InitWalk ==
    /\ srcFields = [f \in FieldNames |-> InitField]
    /\ srcViews = [a \in ViewNames |-> InitView]
    /\ srcEdits = 0
    /\ translate = [nk \in NaturalKeys |-> NoRow]
    /\ nextTid = 1
    /\ docs = [nk \in NaturalKeys |-> NoRow]
    /\ nextDid = 1
    /\ res = InitRes
    /\ up = UpIdle
    /\ now = 0
    /\ chroma = [c \in Collections |-> [nk \in NaturalKeys |-> Null]]
    /\ tx = TxIdle
    /\ ex = [c \in Calls |-> ExIdle]
    /\ runs = [c \in Calls |-> RunIdle]
    /\ util = NoCall
    /\ \E tbl \in [1..MaxRowId -> {Absent, "queued", "upserted"}],
          repo \in {"base_core", "chroma_doc"},
          limit \in 1..MaxLimit,
          filter \in {Null, Some("queued")} :
         walk = [pc |-> "paging", repo |-> repo, table |-> tbl, filter |-> filter,
                 limit |-> limit, cursor |-> Null, calls |-> <<>>]

NextWalk ==
    \/ ListKeyset
    \/ ChromaDocListKeyset

\* the client goes on calling while it holds a cursor
SpecWalk ==
    InitWalk /\ [][NextWalk]_vars /\ WF_vars(ListKeyset) /\ WF_vars(ChromaDocListKeyset)

\* index-upsert runs over queued documents, with the clock and the kill
NextUpsert ==
    \/ UpsertStart
    \/ BeginCollection
    \/ DeadlinePassed
    \/ FirstAttempt
    \/ Retry
    \/ WriteBack
    \/ EndCollection
    \/ UpsertFinish
    \/ Tick
    \/ Kill

SpecUpsert == InitUpsert /\ [][NextUpsert]_vars

\* the same runs when the state write-back may fail as well; the clock
\* stands still, so that no deadline passes
NextWriteBack ==
    \/ UpsertStart
    \/ BeginCollection
    \/ FirstAttempt
    \/ Retry
    \/ WriteBack
    \/ WriteBackRaises
    \/ EndCollection
    \/ UpsertFinish

SpecWriteBack == InitUpsert /\ [][NextWriteBack]_vars

\* a packaging request that is served, and whose session commits, while an
\* index-upsert run is in flight; one such request per run
PackMeanwhile ==
    /\ ~Idle
    /\ res.op = "chroma_upsert_running"
    /\ PackRun(FALSE)

\* index-upsert runs with packaging runs in between their steps, over a
\* source the importer edits
NextPackUpsert ==
    \/ EditSource
    \/ PackMeanwhile
    \/ UpsertStart
    \/ BeginCollection
    \/ FirstAttempt
    \/ Retry
    \/ WriteBack
    \/ EndCollection
    \/ UpsertFinish

SpecPackUpsert == InitUpsert /\ [][NextPackUpsert]_vars

\* a source label longer than the 2000 characters _trim keeps
LongLabel == [i \in 1..(TrimLimit + 1) |-> "a"]

\* portal_translate after the units were extracted, the field's label being
\* `label`: every row pending. The labels used have no white space and the
\* field has no notes, so that the label is its own normalised source text.
PendingUnits(label) ==
    [nk \in NaturalKeys |->
        LET i == CHOOSE j \in 1..Len(InitUnits) : InitUnits[j].nk = nk
            u == InitUnits[i]
            text == IF u.entity = "field" THEN label ELSE u.text
        IN [id |-> i, entity |-> u.entity, natural_key |-> nk,
            source_text |-> text, translated_text |-> Null,
            source_hash |-> _sha256(text), state |-> "pending",
            last_error |-> Null, model |-> MODEL]]

\* the state once every unit is extracted and none is translated; the field's
\* label is a short one or a long one
InitTranslate ==
    /\ \E label \in {InitField.label_ja, LongLabel} :
         /\ srcFields = [f \in FieldNames |-> [InitField EXCEPT !.label_ja = label]]
         /\ translate = PendingUnits(label)
    /\ srcViews = [a \in ViewNames |-> InitView]
    /\ srcEdits = 0
    /\ nextTid = Len(InitUnits) + 1
    /\ docs = [nk \in NaturalKeys |-> NoRow]
    /\ nextDid = 1
    /\ res = InitRes
    /\ up = UpIdle
    /\ now = 0
    /\ chroma = [c \in Collections |-> [nk \in NaturalKeys |-> Null]]
    /\ tx = TxIdle
    /\ ex = [c \in Calls |-> ExIdle]
    /\ runs = [c \in Calls |-> RunIdle]
    /\ walk = NoWalk
    /\ util = NoCall

\* translation runs taken row by row, with the kill
NextTranslate ==
    \/ TranslateStart
    \/ TranslateRow
    \/ TranslateFinish
    \/ TranslateKill

SpecTranslate == InitTranslate /\ [][NextTranslate]_vars

\* Two extraction calls at the same time, statement by statement. Each call
\* has its own session (get_session); a statement sees the committed rows and
\* the rows of its own session (READ COMMITTED).

\* the units the calls go through: extract_field over the model's field, or
\* extract_view_common over the action with one target or both
UnitLists == {<<1>>, <<2>>, <<3>>, <<2, 3>>}

\* portal_translate as the session of call c sees it
SessionView(c) ==
    [nk \in NaturalKeys |-> IF ex[c].own[nk] # NoRow THEN ex[c].own[nk]
                             ELSE translate[nk]]

CurrentUnit(c) == InitUnits[ex[c].units[ex[c].pos]]

\* another session holds an uncommitted row with this key: the INSERT waits
HeldByOther(c, nk) == \E o \in Calls \ {c} : ex[o].own[nk] # NoRow

\* the request arrives
ExtractCallStart ==
    /\ Idle
    /\ \E c \in Calls, units \in UnitLists :
         /\ ex[c].pc = "idle"
         /\ ex' = [ex EXCEPT ![c] = [ExIdle EXCEPT !.pc = "select",
                                                    !.units = units, !.pos = 1]]
    /\ UNCHANGED <<runs, walk, util, srcFields, srcViews, srcEdits, translate, nextTid, docs, nextDid,
                   res, up, now, chroma, tx>>

\* existing = _get_existing(...): a row that exists has the same hash here
\* (no_change); for a key with no row the call goes on to the INSERT
ExtractCallSelect ==
    /\ \E c \in Calls :
         /\ ex[c].pc = "select"
         /\ ex[c].pos <= Len(ex[c].units)
         /\ LET u == CurrentUnit(c)
                existing == _get_existing(SessionView(c), u.entity, u.nk)
            IN ex' = [ex EXCEPT ![c] = IF existing # NoRow
                                       THEN [@ EXCEPT !.pos = @ + 1]
                                       ELSE [@ EXCEPT !.pc = "insert"]]
    /\ UNCHANGED <<runs, walk, util, srcFields, srcViews, srcEdits, translate, nextTid, docs, nextDid,
                   res, up, now, chroma, tx>>

\* _insert_translate(...): a plain INSERT. It takes effect in the session
\* when no committed row has the key.
ExtractCallInsert ==
    /\ \E c \in Calls :
         /\ ex[c].pc = "insert"
         /\ LET u == CurrentUnit(c)
            IN /\ ~HeldByOther(c, u.nk)
               /\ translate[u.nk] = NoRow
               /\ ex' = [ex EXCEPT ![c] =
                           [@ EXCEPT !.own = _insert_translate(@, nextTid, u.entity,
                                                 u.nk, MODEL, u.text, _sha256(u.text)),
                                     !.inserted = @ + 1, !.pos = @ + 1,
                                     !.pc = "select"]]
    /\ nextTid' = nextTid + 1
    /\ UNCHANGED <<runs, walk, util, srcFields, srcViews, srcEdits, translate, docs, nextDid,
                   res, up, now, chroma, tx>>

\* the same INSERT when a committed row has the key by now: the database
\* raises the unique violation, nothing in extract catches it, get_session
\* rolls the session back and re-raises
ExtractCallConflict ==
    /\ \E c \in Calls :
         /\ ex[c].pc = "insert"
         /\ LET u == CurrentUnit(c)
            IN /\ ~HeldByOther(c, u.nk)
               /\ translate[u.nk] # NoRow
         /\ ex' = [ex EXCEPT ![c] = [@ EXCEPT !.pc = "raised", !.conflict = TRUE,
                                              !.own = ExIdle.own]]
         /\ res' = Finished("extract_raised", ex[c].units, Null, {})
    /\ nextTid' = nextTid + 1
    /\ UNCHANGED <<runs, walk, util, srcFields, srcViews, srcEdits, translate, docs, nextDid,
                   up, now, chroma, tx>>

\* the loop is over, the handler returns and get_session commits
ExtractCallReturn ==
    /\ \E c \in Calls :
         /\ ex[c].pc = "select"
         /\ ex[c].pos > Len(ex[c].units)
         /\ translate' = SessionView(c)
         /\ ex' = [ex EXCEPT ![c] = [@ EXCEPT !.pc = "done", !.own = ExIdle.own]]
         /\ res' = Finished("extract_returned", ex[c].units,
                            [inserted |-> ex[c].inserted],
                            Written(translate, SessionView(c)))
    /\ UNCHANGED <<runs, walk, util, srcFields, srcViews, srcEdits, nextTid, docs, nextDid,
                   up, now, chroma, tx>>

NextRace ==
    \/ ExtractCallStart
    \/ ExtractCallSelect
    \/ ExtractCallInsert
    \/ ExtractCallConflict
    \/ ExtractCallReturn

SpecRace == Init /\ [][NextRace]_vars

\* Extraction over source rows as the importer may have left them: with or
\* without a Japanese text, with or without an English value.

JaLabels == {<<"a">>, <<" ">>, <<>>}
EnValues == {<<"e">>, <<" ">>, <<>>}

\* portal_translate when every unit was extracted and translated from an
\* earlier text of its source row
StaleUnits ==
    [nk \in NaturalKeys |->
        [TranslatedUnits[nk] EXCEPT !.source_text = <<"z">>,
                                    !.source_hash = _sha256(<<"z">>),
                                    !.translated_text = Some(Translated(<<"z">>))]]

InitSources ==
    /\ \E ja \in JaLabels, en \in EnValues :
         srcFields = [f \in FieldNames |->
                        [InitField EXCEPT !.label_ja = ja, !.label_en = en]]
    /\ \E ja \in JaLabels \ {<<" ">>}, en \in EnTexts, hja \in JaLabels \ {<<" ">>},
          hen \in EnTexts :
         srcViews = [a \in ViewNames |->
                        [InitView EXCEPT !.ai_purpose = ja, !.ai_en = en,
                                         !.help_ja = hja, !.help_en = hen]]
    /\ srcEdits = 0
    /\ \/ translate = [nk \in NaturalKeys |-> NoRow] /\ nextTid = 1
       \/ translate = StaleUnits /\ nextTid = Len(InitUnits) + 1
    /\ docs = [nk \in NaturalKeys |-> NoRow]
    /\ nextDid = 1
    /\ res = InitRes
    /\ up = UpIdle
    /\ now = 0
    /\ chroma = [c \in Collections |-> [nk \in NaturalKeys |-> Null]]
    /\ tx = TxIdle
    /\ ex = [c \in Calls |-> ExIdle]
    /\ runs = [c \in Calls |-> RunIdle]
    /\ walk = NoWalk
    /\ util = NoCall

NextSources ==
    \/ ExtractField
    \/ ExtractViewCommon

SpecSources == InitSources /\ [][NextSources]_vars

\* Translation runs and extraction calls at the same time on rows that
\* exist, statement by statement. Every request has its own session; a
\* statement sees the committed rows and the rows of its own session, and an
\* UPDATE of a row another session has updated waits until that session ends
\* and then applies to the row as committed (READ COMMITTED, the default).

\* the stored source text of the field, older than its source row's label
OlderText == <<"z">>

\* portal_translate as the session of run c sees it
RunView(c) ==
    [nk \in NaturalKeys |-> IF runs[c].own[nk] # NoRow THEN runs[c].own[nk]
                             ELSE translate[nk]]

\* the sessions other than `self` that hold an uncommitted version of the row
RowHolders(nk) ==
    {<<"run", c>> : c \in {d \in Calls : runs[d].own[nk] # NoRow}}
    \cup {<<"extract", c>> : c \in {d \in Calls : ex[d].own[nk] # NoRow}}

RowFreeFor(self, nk) == RowHolders(nk) \subseteq {self}

\* run_translate up to the loop: _pick_pending in the run's session
RunStart ==
    /\ Idle
    /\ \E c \in Calls, limit \in {1, MaxLimit} :
         /\ runs[c].pc = "idle"
         /\ LET rows == _pick_pending(translate, limit, {})
            IN runs' = [runs EXCEPT ![c] =
                          [RunIdle EXCEPT !.pc = "loop", !.rows = rows,
                                          !.r.picked = Len(rows)]]
    /\ UNCHANGED <<walk, util, ex, tx, srcFields, srcViews, srcEdits, translate,
                   nextTid, docs, nextDid, res, up, now, chroma>>

\* one turn of the loop: the provider call, then the UPDATE ... WHERE id = :id
\* of _mark_translated or _mark_failed, once no other session holds the row
RunRow ==
    /\ \E c \in Calls, outcome \in {ProviderReturned, ProviderRaised(ProviderError)} :
         /\ runs[c].pc = "loop"
         /\ runs[c].pos < Len(runs[c].rows)
         /\ LET r == runs[c].rows[runs[c].pos + 1]
            IN /\ RowFreeFor(<<"run", c>>, r.natural_key)
               /\ \E acc \in {translate_one([tbl |-> RunView(c), r |-> runs[c].r],
                                             r, outcome)} :
                     runs' = [runs EXCEPT ![c] =
                                [@ EXCEPT !.own[r.natural_key] = acc.tbl[r.natural_key],
                                          !.r = acc.r, !.pos = @ + 1,
                                          !.outcomes = Append(@, outcome)]]
    /\ UNCHANGED <<walk, util, ex, tx, srcFields, srcViews, srcEdits, translate,
                   nextTid, docs, nextDid, res, up, now, chroma>>

\* run_translate returns and get_session commits the run's session
RunCommit ==
    /\ \E c \in Calls :
         /\ runs[c].pc = "loop"
         /\ runs[c].pos = Len(runs[c].rows)
         /\ translate' = RunView(c)
         /\ runs' = [runs EXCEPT ![c] = [@ EXCEPT !.pc = "done", !.own = RunIdle.own]]
         /\ res' = Finished("run_translate", c,
                            [rows |-> runs[c].rows, outcomes |-> runs[c].outcomes,
                             translated |-> runs[c].r.translated,
                             failed |-> runs[c].r.failed],
                            Written(translate, RunView(c)))
    /\ UNCHANGED <<walk, util, ex, tx, srcFields, srcViews, srcEdits, nextTid, docs,
                   nextDid, up, now, chroma>>

\* extraction of one unit in mode upsert_if_changed: existing =
\* _get_existing(...), then the comparison of the hashes
ExtractCallExamine ==
    /\ \E c \in Calls :
         /\ ex[c].pc = "select"
         /\ ex[c].pos <= Len(ex[c].units)
         /\ LET u == CurrentUnit(c)
                existing == _get_existing(SessionView(c), u.entity, u.nk)
            IN ex' = [ex EXCEPT ![c] =
                        IF existing = NoRow THEN [@ EXCEPT !.pc = "insert"]
                        ELSE IF existing.source_hash = _sha256(u.text)
                        THEN [@ EXCEPT !.pos = @ + 1]
                        ELSE [@ EXCEPT !.pc = "update"]]
    /\ UNCHANGED <<runs, walk, util, srcFields, srcViews, srcEdits, translate, nextTid,
                   docs, nextDid, res, up, now, chroma, tx>>

\* _update_translate_if_changed(session, existing["id"], src_text, sh), once
\* no other session holds the row
ExtractCallUpdate ==
    /\ \E c \in Calls :
         /\ ex[c].pc = "update"
         /\ LET u == CurrentUnit(c)
                tbl == SessionView(c)
            IN /\ RowFreeFor(<<"extract", c>>, u.nk)
               /\ ex' = [ex EXCEPT ![c] =
                           [@ EXCEPT !.own[u.nk] =
                                        _update_translate_if_changed(tbl, tbl[u.nk].id,
                                            u.text, _sha256(u.text))[u.nk],
                                     !.pos = @ + 1, !.pc = "select"]]
    /\ UNCHANGED <<runs, walk, util, srcFields, srcViews, srcEdits, translate, nextTid,
                   docs, nextDid, res, up, now, chroma, tx>>

\* every unit is extracted and pending, the field from an older label
InitRuns ==
    /\ srcFields = [f \in FieldNames |-> InitField]
    /\ srcViews = [a \in ViewNames |-> InitView]
    /\ srcEdits = 0
    /\ translate = PendingUnits(OlderText)
    /\ nextTid = Len(InitUnits) + 1
    /\ docs = [nk \in NaturalKeys |-> NoRow]
    /\ nextDid = 1
    /\ res = InitRes
    /\ up = UpIdle
    /\ now = 0
    /\ chroma = [c \in Collections |-> [nk \in NaturalKeys |-> Null]]
    /\ tx = TxIdle
    /\ ex = [c \in Calls |-> ExIdle]
    /\ runs = [c \in Calls |-> RunIdle]
    /\ walk = NoWalk
    /\ util = NoCall

NextRuns ==
    \/ RunStart
    \/ RunRow
    \/ RunCommit
    \/ ExtractCallStart
    \/ ExtractCallExamine
    \/ ExtractCallUpdate
    \/ ExtractCallReturn

SpecRuns == InitRuns /\ [][NextRuns]_vars

\* every variable but util as it is at application start
Quiet ==
    /\ srcFields = [f \in FieldNames |-> InitField]
    /\ srcViews = [a \in ViewNames |-> InitView]
    /\ srcEdits = 0
    /\ translate = [nk \in NaturalKeys |-> NoRow]
    /\ nextTid = 1
    /\ docs = [nk \in NaturalKeys |-> NoRow]
    /\ nextDid = 1
    /\ res = InitRes
    /\ up = UpIdle
    /\ now = 0
    /\ chroma = [c \in Collections |-> [nk \in NaturalKeys |-> Null]]
    /\ tx = TxIdle
    /\ ex = [c \in Calls |-> ExIdle]
    /\ runs = [c \in Calls |-> RunIdle]
    /\ walk = NoWalk

\* the characters and the length of the segments given to the key builders
KeyChars == {"a", "B", "1", ".", "_", ":", " ", "\n", "-"}
MaxSegLen == 3

Segments == UNION {[1..n -> KeyChars] : n \in 0..MaxSegLen}

ModelInputs ==
    {<<"m", "1">>, <<" ", "M", ".", "x", "\n">>, <<"m", ":", ":", "x">>, <<"m", ":">>,
     <<"m", "-", "1">>, <<>>}

TargetInputs ==
    {AiPurposeText, HelpText, <<"H", "e", "l", "p">>, <<" ", "h", "e", "l", "p">>,
     <<"x">>, <<>>}

InitKeys ==
    /\ Quiet
    /\ \/ \E m \in ModelInputs, f \in Segments :
            util = Call("build_field_key", <<m, f>>)
       \/ \E x \in Segments, t \in TargetInputs :
            util = Call("build_view_common_key", <<x, t>>)

NextKeys ==
    \/ BuildFieldKey
    \/ BuildViewCommonKey

SpecKeys == InitKeys /\ [][NextKeys]_vars

\* the names source rows hold: a model as import_fields stores it (stripped,
\* letter case kept), field names and action ids as their source gives them
StoredModels == {<<"m", "1">>, <<"M", "1">>}
StoredNames == Segments \ {<<>>}

InitWrittenKeys ==
    /\ Quiet
    /\ \/ \E m \in StoredModels, f \in StoredNames :
            util = Call("extract_field", <<m, f>>)
       \/ \E x \in StoredNames, t \in {AiPurposeText, HelpText} :
            util = Call("extract_view_common", <<x, t>>)

NextWrittenKeys ==
    \/ ExtractFieldKey
    \/ ExtractViewCommonKey

SpecWrittenKeys == InitWrittenKeys /\ [][NextWrittenKeys]_vars

\* the texts and the byte budgets given to the truncations
TextChars == {"a", "U+00E9", "U+3042", "U+1F600"}
MaxTextLen == 4
MaxBudget == 8

Texts == UNION {[1..n -> TextChars] : n \in 0..MaxTextLen}

InitTruncate ==
    /\ Quiet
    /\ \E fn \in {"_truncate", "_safe_truncate_utf8"}, text \in Texts,
          budget \in 0..MaxBudget :
         util = Call(fn, <<text, budget>>)

NextTruncate ==
    \/ Truncate
    \/ SafeTruncateUtf8

SpecTruncate == InitTruncate /\ [][NextTruncate]_vars

\* the ids and the tokens given to the cursor codec
MaxId == 12
MaxJunkLen == 2
JunkChars == {"A", "e", "=", "!", "-"}

\* tokens that cannot be decoded: an encoded id cut short, characters that
\* are no complete base64 group, and the base64 of texts that are no JSON
\* object with a usable last_id
CutTokens ==
    {SubSeq(encode_last_id_cursor(n), 1, Len(encode_last_id_cursor(n)) - k) :
        n \in 0..MaxId, k \in 1..4}
JunkTokens == UNION {[1..n -> JunkChars] : n \in 1..MaxJunkLen}
OtherTexts ==
    {<<"a", "b", "c">>, <<"[", "1", "]">>, <<"7">>, <<"{", "}">>,
     LastIdPrefix \o <<"n", "u", "l", "l", "}">>,
     LastIdPrefix \o <<"\"", "x", "\"", "}">>,
     LastIdPrefix \o <<"0", "7", "}">>}
OtherTokens == {urlsafe_b64encode(str_encode(t)) : t \in OtherTexts}

\* tokens the decoder reads although encode_last_id_cursor never made them:
\* an encoded id with a foreign character in front or text after it, and an
\* id given as a JSON string
LenientCalls ==
    {<<Some(<<"!">> \o encode_last_id_cursor(n)), "lenient", n>> : n \in 0..MaxId}
    \cup {<<Some(encode_last_id_cursor(n) \o <<"=", "x">>), "lenient", n>> :
             n \in {n \in 0..MaxId : n < 10}}
    \cup {<<Some(urlsafe_b64encode(str_encode(
                    LastIdPrefix \o <<"\"", "7", "\"", "}">>))), "lenient", 7>>}

InitCursor ==
    /\ Quiet
    /\ \/ \E n \in 0..MaxId : util = Call("encode_last_id_cursor", <<n>>)
       \/ util = Call("decode_last_id_cursor", <<Null, "absent", 0>>)
       \/ util = Call("decode_last_id_cursor", <<Some(<<>>), "empty", 0>>)
       \/ \E t \in CutTokens \cup JunkTokens \cup OtherTokens :
            util = Call("decode_last_id_cursor", <<Some(t), "malformed", 0>>)
       \/ \E a \in LenientCalls : util = Call("decode_last_id_cursor", a)

NextCursor ==
    \/ EncodeLastIdCursor
    \/ CursorComesBack
    \/ DecodeLastIdCursor

SpecCursor == InitCursor /\ [][NextCursor]_vars

----------------------------------------------------------------------------
(* Properties of extraction and of the translation staging rows *)

ExtractOps == {"extract_field", "extract_view_common"}

HasRow(tbl, nk) == tbl[nk] # NoRow

\* the normalised source text extraction computes for the unit nk right now
CurrentText(nk) ==
    IF nk[1] = "field" THEN FieldSrcTextOf(srcFields[nk[3]])
    ELSE IF nk[3] = "ai_purpose" THEN _normalize_plain(srcViews[nk[2]].ai_purpose)
    ELSE _normalize_plain(srcViews[nk[2]].help_ja)

\* the unit nk exists in the source, is selected by the request and passes
\* the no-source-text and has-target-language filters
Extractable(nk, op, req) ==
    /\ CurrentText(nk) # <<>>
    /\ IF nk[1] = "field"
       THEN /\ op = "extract_field"
            /\ nk[3] \in Range(_fetch_fields(req.models, req.fields))
            /\ ~_has_en(srcFields[nk[3]].label_en, <<>>)
       ELSE /\ op = "extract_view_common"
            /\ nk[2] \in _fetch_view_commons(req.action_xmlids)
            /\ nk[3] \in req.targets
            /\ IF nk[3] = "ai_purpose"
               THEN ~_has_en(srcViews[nk[2]].ai_en, <<>>)
               ELSE ~_has_en(<<>>, srcViews[nk[2]].help_en)

Reported(out, nk, reason) == <<nk, reason>> \in Range(out.details)

C2_HashTriggeredReset ==
    [][\A nk \in NaturalKeys :
         (/\ res'.op \in ExtractOps
          /\ res'.req.mode = "upsert_if_changed"
          /\ Extractable(nk, res'.op, res'.req)
          /\ HasRow(translate, nk)
          /\ translate[nk].state = "translated"
          /\ translate[nk].source_hash # _sha256(CurrentText(nk)))
         => (/\ translate'[nk] =
                  [translate[nk] EXCEPT !.source_text = CurrentText(nk),
                                        !.source_hash = _sha256(CurrentText(nk)),
                                        !.state = "pending",
                                        !.translated_text = Null,
                                        !.last_error = Null]
             /\ nk \in res'.written
             /\ res'.out.updated >= 1
             /\ <<nk, "translated">> \in Range(res'.out.updated_from))]_vars

\* an extraction call has just reset a translated row whose source changed
C2_Witness ==
    /\ res.op \in ExtractOps
    /\ res.req.mode = "upsert_if_changed"
    /\ \E nk \in res.written :
         /\ <<nk, "translated">> \in Range(res.out.updated_from)
         /\ translate[nk].state = "pending"
         /\ translate[nk].translated_text = Null

\* C3: under any sequence of extraction calls, translation runs and
\* packaging runs, a staging row in state pending has no translated_text.
C3_PendingHasNoTranslation ==
    \A nk \in NaturalKeys :
        (HasRow(translate, nk) /\ translate[nk].state = "pending")
            => translate[nk].translated_text = Null

\* once documents have been packaged, an extraction call resets a
\* translated row to pending, and its translation is gone
C3_Witness ==
    /\ res.op \in ExtractOps
    /\ \E nk \in NaturalKeys : HasRow(docs, nk)
    /\ \E nk \in NaturalKeys :
         /\ <<nk, "translated">> \in Range(res.out.updated_from)
         /\ HasRow(translate, nk)
         /\ translate[nk].state = "pending"

----------------------------------------------------------------------------
(* Properties of packaging *)

LiveMeta(nk) == IF nk[1] = "field" THEN field_meta(nk[3]) ELSE vc_meta(nk[2])

\* the content hash packaging computes for the row nk right now
RenderedHash(nk, collections) ==
    PackDoc(translate[nk], LiveMeta(nk), collections).source_hash

Entries(out) == Range(out.rows)

C5_PackagedRowIsQueuedAndReady ==
    res.op = "pack" =>
        \A e \in Entries(res.out) :
            (e.outcome # "raised" /\ LiveMeta(e.nk) # NoRow)
            => /\ e.outcome \in {"queued", "skipped_no_change"}
               /\ HasRow(docs, e.nk)
               /\ docs[e.nk].state = "queued"
               /\ e.nk \in Range(res.out.ready)

\* C6: after a packaging run every row packaged with outcome queued or
\* unchanged is in state ready_for_chroma, and every row that failed is
\* still in state translated.
C6_SuccessesBecomeReady ==
    res.op = "pack" =>
        \A e \in Entries(res.out) :
            IF e.outcome \in {"queued", "skipped_no_change"}
            THEN translate[e.nk].state = "ready_for_chroma"
            ELSE translate[e.nk].state = "translated"

\* C7: when processing one row of a packaging run raises, the run still
\* returns, its counts add up to the number of selected rows, and the
\* document rows written for the other rows are in the store.
C7_PartialFailureIsolation ==
    (res.op = "pack" /\ \E e \in Entries(res.out) : e.outcome = "raised")
    => /\ res.out.queued + res.out.skipped_no_change + res.out.failed
            = Len(res.out.selected)
       /\ \A e \in Entries(res.out) :
            e.outcome = "queued" => (HasRow(docs, e.nk) /\ docs[e.nk] = e.doc)

----------------------------------------------------------------------------
(* Properties of the index upsert *)

Completed(e) == e.first = "ok" \/ e.second # "none"
Succeeded(e) == e.first = "ok" \/ e.second = "ok"
FinishedRun == res.op = "chroma_upsert" /\ res.out # Null /\ ~res.out.raised
SentKeys(log) == UNION {log[i].ids : i \in 1..Len(log)}
ErrorIds(errors) == {errors[i].doc_id : i \in 1..Len(errors)}
SucceededKeys(log) == UNION {log[i].ids : i \in {j \in 1..Len(log) : Succeeded(log[j])}}
RetryFailedKeys(log) ==
    UNION {log[i].ids : i \in {j \in 1..Len(log) : log[j].second = "fail"}}

C9_OneDeadlinePerRun ==
    /\ \A e \in Range(up.log) : e.t <= up.log[1].deadline
    /\ FinishedRun =>
         \A nk \in res.out.run \ SentKeys(res.out.log) :
             /\ docs[nk].state = "failed"
             /\ docs[nk].last_error = Some(UPSERT_TIMEOUT)

\* C10: when a sub-batch is sent to the store, the rows of every sub-batch
\* sent before it in the run already have their state written back and
\* committed; so after a kill, the rows of a sub-batch that was followed by
\* another one are upserted or failed, not queued.
C10_WriteBackBeforeNextSubBatch ==
    /\ \A i \in 1..Len(up.log) : \A j \in (i + 1)..Len(up.log) :
           \A nk \in up.log[i].ids : docs[nk].state \in {"upserted", "failed"}
    /\ res.op = "killed" =>
         \A i \in 1..Len(res.out.log) : \A j \in (i + 1)..Len(res.out.log) :
           \A nk \in res.out.log[i].ids : docs[nk].state \in {"upserted", "failed"}

\* the queued documents a request selects, as many as list_queued returns
Selected(req) == list_queued(docs, req.collections, req.limit)

----------------------------------------------------------------------------
(* Properties of the translation run *)

FinishedTranslation == res.op = "run_translate" /\ "rows" \in DOMAIN res.out
KilledTranslation == res.op = "run_translate_killed"

\* the text the provider is called with for a picked row: the first 2000
\* characters and an ellipsis when the source text is longer
SentText(r) ==
    IF Len(r.source_text) > TrimLimit
    THEN SubSeq(r.source_text, 1, TrimLimit) \o <<"...">>
    ELSE r.source_text

\* C12, as stated: every picked row for which the provider call returned ends
\* translated, with the provider's result for the row's source text as
\* translated_text and no last_error.
C12_AsStated ==
    FinishedTranslation =>
        \A i \in 1..Len(res.out.rows) :
            ~res.out.outcomes[i].raised =>
                LET r == res.out.rows[i]
                    row == translate[r.natural_key]
                IN /\ row.state = "translated"
                   /\ row.translated_text = Some(Translated(r.source_text))
                   /\ row.last_error = Null

\* C12: every picked row for which the provider call returned ends
\* translated, with no last_error, and its translated_text is the provider's
\* result for the row's source text cut to its first 2000 characters plus an
\* ellipsis when it is longer than that.
C12_TranslatedFromTrimmedText ==
    FinishedTranslation =>
        \A i \in 1..Len(res.out.rows) :
            ~res.out.outcomes[i].raised =>
                LET r == res.out.rows[i]
                    row == translate[r.natural_key]
                IN /\ row.state = "translated"
                   /\ row.translated_text = Some(Translated(SentText(r)))
                   /\ row.last_error = Null

C12_Witness ==
    /\ FinishedTranslation
    /\ Len(res.out.rows) >= 2
    /\ \E i, j \in 1..Len(res.out.rows) :
         /\ ~res.out.outcomes[i].raised
         /\ Len(res.out.rows[i].source_text) > TrimLimit
         /\ translate[res.out.rows[i].natural_key].state = "translated"
         /\ ~res.out.outcomes[j].raised
         /\ Len(res.out.rows[j].source_text) <= TrimLimit
         /\ translate[res.out.rows[j].natural_key].state = "translated"

\* C13: a translation run in which the provider raised for a picked row
\* finishes all the same: that row is failed with the first 300 characters of
\* the error as last_error, every picked row after it was processed too, and
\* picked = translated + failed in the result.
C13_ProviderFailureIsPerRow ==
    FinishedTranslation =>
        /\ ~res.out.raised
        /\ res.out.processed = Len(res.out.rows)
        /\ Len(res.out.outcomes) = Len(res.out.rows)
        /\ res.out.picked = Len(res.out.rows)
        /\ res.out.picked = res.out.translated + res.out.failed
        /\ res.out.failed =
              Cardinality({i \in 1..Len(res.out.rows) : res.out.outcomes[i].raised})
        /\ \A i \in 1..Len(res.out.rows) :
              LET row == translate[res.out.rows[i].natural_key]
                  e == res.out.outcomes[i].error
              IN IF res.out.outcomes[i].raised
                 THEN /\ row.state = "failed"
                      /\ row.last_error # Null
                      /\ Len(row.last_error[1]) <= ErrLimit
                      /\ row.last_error[1] = SubSeq(e, 1, Min(Len(e), ErrLimit))
                 ELSE row.state = "translated"

C13_Witness ==
    /\ FinishedTranslation
    /\ Len(res.out.rows) >= 3
    /\ res.out.outcomes[1].raised
    /\ Len(res.out.outcomes[1].error) > ErrLimit
    /\ translate[res.out.rows[1].natural_key].state = "failed"
    /\ ~res.out.outcomes[2].raised
    /\ translate[res.out.rows[2].natural_key].state = "translated"
    /\ res.out.outcomes[3].raised
    /\ res.out.failed = 2
    /\ res.out.translated = 1

\* C14: when a translation run is killed after k of its picked rows were
\* processed, those k rows are translated or failed in the database and the
\* other picked rows are still pending.
C14_EachRowCommitsOnItsOwn ==
    KilledTranslation =>
        \A i \in 1..Len(res.out.rows) :
            LET row == translate[res.out.rows[i].natural_key]
            IN IF i <= res.out.processed
               THEN row.state = IF res.out.outcomes[i].raised THEN "failed"
                                ELSE "translated"
               ELSE row.state = "pending"

\* the entries of a packaging run for the rows whose live metadata was missing
MetaMissing(out) == {e \in Entries(out) : e.outcome = "meta_not_found"}

\* C15: a packaging run that finds no live metadata for a selected row counts
\* the row in failed and marks it failed (state failed), creates or changes
\* no document row for it, and goes through every other selected row.
C15_MissingMetadataFailsTheRow ==
    [][res'.op = "pack" =>
        /\ Len(res'.out.rows) = Len(res'.out.selected)
        /\ res'.out.failed >= Cardinality(MetaMissing(res'.out))
        /\ \A e \in MetaMissing(res'.out) :
              /\ docs'[e.nk] = docs[e.nk]
              /\ translate'[e.nk].state = "failed"]_vars

\* what the code does for such a row: it is counted and sampled, and the
\* translation row is left translated
C15_RowStaysTranslated ==
    [][res'.op = "pack" =>
        /\ Len(res'.out.rows) = Len(res'.out.selected)
        /\ res'.out.failed >= Cardinality(MetaMissing(res'.out))
        /\ \A e \in MetaMissing(res'.out) :
              /\ docs'[e.nk] = docs[e.nk]
              /\ translate'[e.nk] = translate[e.nk]
              /\ translate'[e.nk].state = "translated"]_vars

----------------------------------------------------------------------------
(* Properties of concurrent extraction calls *)

\* the keys for which a call holds a row, committed or not
Keyed(c) == {nk \in NaturalKeys : ex[c].own[nk] # NoRow}

\* C16: an extraction call whose INSERT lost the race for a key (both calls
\* had found no row) does not raise: the conflict is absorbed, the call goes
\* on with its remaining units, and when it has returned every unit it went
\* through has its one row in portal_translate.
C16_ConflictAbsorbed ==
    \A c \in Calls :
        ex[c].conflict =>
            /\ ex[c].pc # "raised"
            /\ ex[c].pc = "done" =>
                  \A i \in 1..Len(ex[c].units) :
                      HasRow(translate, InitUnits[ex[c].units[i]].nk)

\* what holds of the code: no key is ever held by two sessions, and a call
\* that lost the race has raised with nothing of its own left
C16_LoserRaises ==
    /\ \A c \in Calls, o \in Calls : c # o => Keyed(c) \cap Keyed(o) = {}
    /\ \A c \in Calls : ex[c].conflict => ex[c].pc = "raised" /\ Keyed(c) = {}

----------------------------------------------------------------------------
(* Properties of the extraction filters *)

\* the source of the unit nk holds a non-blank English value
SourceHasEn(nk) ==
    IF nk[1] = "field" THEN Strip(srcFields[nk[3]].label_en) # <<>>
    ELSE IF nk[3] = "ai_purpose" THEN Strip(srcViews[nk[2]].ai_en) # <<>>
    ELSE Strip(srcViews[nk[2]].help_en) # <<>>

\* the unit nk is one of the units the call goes through
Covered(nk, op, req) ==
    IF nk[1] = "field"
    THEN /\ op = "extract_field"
         /\ nk[3] \in Range(_fetch_fields(req.models, req.fields))
    ELSE /\ op = "extract_view_common"
         /\ nk[2] \in _fetch_view_commons(req.action_xmlids)
         /\ nk[3] \in req.targets

\* C17: an extraction call, in any mode, writes nothing to portal_translate
\* for a unit whose source holds a non-blank English value (no insert, no
\* update of an existing row) and reports the unit as skipped_has_en.
C17_HasEnIsSkipped ==
    [][res'.op \in ExtractOps =>
        \A nk \in NaturalKeys :
            (Covered(nk, res'.op, res'.req) /\ SourceHasEn(nk)) =>
                /\ translate'[nk] = translate[nk]
                /\ Reported(res'.out, nk, "has_en")
                /\ res'.out.skipped_has_en >= 1]_vars

\* what holds of the code: nothing is written for such a unit, and it is
\* reported as has_en when it has a Japanese text and as no_ja when not
C17_HasEnWritesNothing ==
    [][res'.op \in ExtractOps =>
        \A nk \in NaturalKeys :
            (Covered(nk, res'.op, res'.req) /\ SourceHasEn(nk)) =>
                /\ translate'[nk] = translate[nk]
                /\ IF CurrentText(nk) # <<>>
                   THEN Reported(res'.out, nk, "has_en") /\ res'.out.skipped_has_en >= 1
                   ELSE Reported(res'.out, nk, "no_ja") /\ res'.out.skipped_no_ja >= 1]_vars

----------------------------------------------------------------------------
(* Properties of the natural key codec *)

\* str.split('::')
RECURSIVE SplitSep(_)
SplitSep(s) ==
    IF ~HasSep(s) THEN <<s>>
    ELSE LET i == CHOOSE j \in 1..(Len(s) - 1) :
                    /\ s[j] = ":" /\ s[j + 1] = ":"
                    /\ \A k \in 1..(j - 1) : ~(s[k] = ":" /\ s[k + 1] = ":")
         IN <<SubSeq(s, 1, i - 1)>> \o SplitSep(SubSeq(s, i + 2, Len(s)))

\* a segment trimmed and lower-cased
Normal(part) == LowerText(Strip(part))

\* the segment is one or more characters of the class
AllIn(class, part) == part # <<>> /\ \A i \in 1..Len(part) : part[i] \in class

KeyDone(fn) == util.fn = fn /\ util.done

\* C18: build_field_key and build_view_common_key depend on their scope
\* segments only through the trimmed, lower-cased segment (the result for an
\* input is the result for its normal form, so inputs equal after
\* normalisation give the same key); a returned key splits on '::' into
\* exactly three segments, the entity and the normalised segments, none of
\* which holds the delimiter; an input with '::' in a segment, with a segment
\* that fails its pattern, or with a target other than ai_purpose and help
\* is rejected with an error.
C18_KeyCodec ==
    /\ KeyDone("build_field_key") =>
          LET m == Normal(util.args[1])
              f == Normal(util.args[2])
              bad == \/ HasSep(m) \/ HasSep(f)
                     \/ ~AllIn(LowerLetters \cup Digits \cup {".", "_"}, m)
                     \/ ~AllIn(LowerLetters \cup Digits \cup {"_"}, f)
          IN /\ util.out = build_field_key(m, f)
             /\ util.out.raised = bad
             /\ ~bad => /\ SplitSep(util.out.value) = <<FieldText, m, f>>
                        /\ \A i \in 1..3 : ~HasSep(SplitSep(util.out.value)[i])
    /\ KeyDone("build_view_common_key") =>
          LET x == Normal(util.args[1])
              t == util.args[2]
              bad == \/ HasSep(x)
                     \/ ~AllIn(LowerLetters \cup Digits \cup {".", "_"}, x)
                     \/ t \notin {AiPurposeText, HelpText}
          IN /\ util.out = build_view_common_key(x, t)
             /\ util.out.raised = bad
             /\ ~bad => /\ SplitSep(util.out.value) = <<ViewCommonText, x, t>>
                        /\ \A i \in 1..3 : ~HasSep(SplitSep(util.out.value)[i])

C18_Witness ==
    /\ KeyDone("build_field_key")
    /\ util.args[1] # Normal(util.args[1])
    /\ util.args[2] # Normal(util.args[2])
    /\ "B" \in Range(util.args[2])
    /\ ~util.out.raised
    /\ Len(SplitSep(util.out.value)) = 3

\* C28: every natural key extraction writes is the codec's key for its
\* unit (segments trimmed, lower-cased and validated, three segments), so
\* that source rows whose names differ only in letter case or surrounding
\* white space get the same key.
C28_WrittenKeyIsCodecKey ==
    /\ KeyDone("extract_field") =>
          util.out = build_field_key(util.args[1], util.args[2])
    /\ KeyDone("extract_view_common") =>
          util.out = build_view_common_key(util.args[1], util.args[2])

\* what holds of the code: the written key is the codec's key for the names
\* that are in normal form already and that the codec accepts, and it always
\* has the entity as its first segment
C28_CodecKeyForNormalNames ==
    /\ KeyDone("extract_field") =>
          /\ SplitSep(util.out.value)[1] = FieldText
          /\ (/\ util.args[1] = Normal(util.args[1])
              /\ util.args[2] = Normal(util.args[2])
              /\ ~build_field_key(util.args[1], util.args[2]).raised) =>
                 util.out = build_field_key(util.args[1], util.args[2])
    /\ KeyDone("extract_view_common") =>
          /\ SplitSep(util.out.value)[1] = ViewCommonText
          /\ (/\ util.args[1] = Normal(util.args[1])
              /\ ~build_view_common_key(util.args[1], util.args[2]).raised) =>
                 util.out = build_view_common_key(util.args[1], util.args[2])

----------------------------------------------------------------------------
(* Properties of the truncations *)

\* the number of bytes of the UTF-8 encoding of a text
RECURSIVE ByteLen(_)
ByteLen(text) == IF text = <<>> THEN 0 ELSE Utf8Width(Head(text)) + ByteLen(Tail(text))

\* out is whole characters of the text, from its start, and then maybe the
\* ellipsis: no character was split
WholePrefix(out, text) ==
    \E n \in 0..Len(text) :
        out = SubSeq(text, 1, n) \/ out = SubSeq(text, 1, n) \o <<Ellipsis>>

TruncateDone == util.fn \in {"_truncate", "_safe_truncate_utf8"} /\ util.done

\* C19: for every text and every byte budget, both truncations return whole
\* characters of the text (none is split) whose UTF-8 encoding, the ellipsis
\* included, takes at most the budget in bytes.
C19_TruncationWithinBudget ==
    TruncateDone =>
        /\ WholePrefix(util.out.value, util.args[1])
        /\ ByteLen(util.out.value) <= util.args[2]

\* what holds of the code: the index truncation keeps to every budget, the
\* packaging truncation to every budget of three bytes or more
C19_WithinBudgetFromThree ==
    TruncateDone =>
        /\ WholePrefix(util.out.value, util.args[1])
        /\ (util.fn = "_safe_truncate_utf8" \/ util.args[2] >= 3)
              => ByteLen(util.out.value) <= util.args[2]

----------------------------------------------------------------------------
(* Properties of the cursor codec *)

Decoded == util.fn = "decode_last_id_cursor" /\ util.done

\* C20: decode_last_id_cursor never raises; it returns 0 for an absent, an
\* empty and a malformed token; and the token encode_last_id_cursor made for
\* an id n >= 0 decodes to n.
C20_CursorRoundTrip ==
    Decoded =>
        /\ ~util.out.raised
        /\ util.args[2] \in {"absent", "empty", "malformed"} => util.out.value = 0
        /\ util.args[2] = "encoded" => util.out.value = util.args[3]

C20_Witness ==
    /\ Decoded
    /\ util.args[2] = "encoded"
    /\ util.args[3] >= 10
    /\ util.out.value = util.args[3]

\* the tokens read leniently decode to the id they hold
C20_LenientTokens ==
    (Decoded /\ util.args[2] = "lenient") => util.out = Value(util.args[3])

----------------------------------------------------------------------------
(* Properties of concurrent sessions on portal_translate *)

\* C21: in every reachable state, with translation runs and extraction
\* calls interleaving on the same rows, a portal_translate row with a
\* non-null translated_text has state translated, ready_for_chroma or done
\* (never pending, never failed).
C21_TranslatedTextOnlyFromTranslated ==
    \A nk \in NaturalKeys :
        (translate[nk] # NoRow /\ translate[nk].translated_text # Null) =>
            translate[nk].state \in {"translated", "ready_for_chroma", "done"}

\* C24: with an extraction call and a translation run interleaving on the
\* same portal_translate row, a row in state translated holds the
\* translation of its current source_text: a translation made from a text
\* that extraction has replaced meanwhile is not stored for the new text.
C24_TranslationOfCurrentSource ==
    \A nk \in NaturalKeys :
        (translate[nk] # NoRow /\ translate[nk].state = "translated") =>
            translate[nk].translated_text
                = Some(Translated(_trim(translate[nk].source_text)))

----------------------------------------------------------------------------
(* Properties of the state write-back of the index upsert *)

\* C22: an index-upsert run sets a portal_chroma_doc row to upserted only
\* if a store upsert call of the same run that contained the row returned
\* successfully; a row whose sub-batch failed twice, or that was never sent
\* (deadline), is not upserted when the run has finished.
C22_UpsertedOnlyAfterStoreSuccess ==
    [][/\ \A nk \in NaturalKeys :
            (docs[nk] # NoRow /\ docs[nk].state # "upserted"
                /\ docs'[nk].state = "upserted") =>
                /\ nk \in up.run
                /\ \E e \in Range(up.log) :
                      nk \in e.ids /\ Succeeded(e) /\ e.coll = docs[nk].collection
       /\ FinishedRun' =>
            \A nk \in res'.out.run \ SucceededKeys(res'.out.log) :
                docs'[nk].state # "upserted"]_vars

\* a finished run with a row upserted after its sub-batch succeeded, a row
\* whose sub-batch failed twice and a row never sent
C22_Witness ==
    /\ FinishedRun
    /\ \E nk \in SucceededKeys(res.out.log) : docs[nk].state = "upserted"
    /\ \E nk \in RetryFailedKeys(res.out.log) : docs[nk].state = "failed"
    /\ \E nk \in res.out.run \ SentKeys(res.out.log) : docs[nk].state = "failed"

\* C25: the counts of a finished index-upsert run that is not a dry run add
\* up, whatever the store and the state write-backs did: processed =
\* upserted + skipped + failed.
C25_CountsAddUp ==
    (FinishedRun /\ ~res.req.dry_run) =>
        res.out.processed = res.out.upserted + res.out.skipped + res.out.failed

\* what holds of the code: the counts add up in the runs whose write-back
\* statements all succeeded
C25_CountsAddUpWithoutFaults ==
    (FinishedRun /\ ~res.req.dry_run /\ res.out.faults = {}) =>
        res.out.processed = res.out.upserted + res.out.skipped + res.out.failed

----------------------------------------------------------------------------
(* Properties of packaging runs concurrent with an index upsert *)

\* C23: with packaging and index-upsert runs interleaving on the same
\* portal_chroma_doc row, a row in state upserted carries the doc_text that
\* was last sent to the vector store: a content change packaging writes
\* after the upsert run has read the row is not lost.
C23_UpsertedIsWhatTheStoreHolds ==
    \A nk \in NaturalKeys :
        (docs[nk] # NoRow /\ docs[nk].state = "upserted") =>
            chroma[docs[nk].collection][nk] = Some(docs[nk].doc_text)

----------------------------------------------------------------------------
(* Properties of failed translation rows *)

\* the natural keys _pick_pending returns for a limit
PickedKeys(limit) ==
    {r.natural_key : r \in Range(_pick_pending(translate, limit, {}))}

\* C27: a portal_translate row in state failed is never selected by a
\* translation run: a run leaves its state, translated_text and last_error
\* (the whole row) as they were, and re-extracting it while its source text
\* is unchanged leaves it as it was too.
C27_FailedRowsStayFailed ==
    [][\A nk \in NaturalKeys :
         (HasRow(translate, nk) /\ translate[nk].state = "failed") =>
            /\ \A limit \in 1..MaxLimit : nk \notin PickedKeys(limit)
            /\ res'.op = "run_translate" =>
                  /\ translate'[nk] = translate[nk]
                  /\ \A i \in 1..Len(res'.out.samples) : res'.out.samples[i][1] # nk
            /\ (/\ res'.op \in ExtractOps
                /\ translate[nk].source_hash = _sha256(CurrentText(nk))) =>
                  translate'[nk] = translate[nk]]_vars

\* a translation run has just picked rows while a row that failed in an
\* earlier run is still failed
C27_Witness ==
    /\ res.op = "run_translate"
    /\ res.out.picked > 0
    /\ \E nk \in NaturalKeys \ res.written :
         /\ HasRow(translate, nk)
         /\ translate[nk].state = "failed"
         /\ translate[nk].last_error # Null

----------------------------------------------------------------------------
(* Properties of the extraction result *)

\* the units an extraction call examines: the fetched field rows; for the
\* requested actions, the requested targets of every action found and the
\* action itself when it is not found
RECURSIVE ViewUnits(_, _)
ViewUnits(xmlids, req) ==
    IF xmlids = <<>> THEN 0
    ELSE (IF Lower(Head(xmlids)) \in _fetch_view_commons(req.action_xmlids)
             \/ Head(xmlids) \in _fetch_view_commons(req.action_xmlids)
          THEN Cardinality(req.targets \cap Targets) ELSE 1)
         + ViewUnits(Tail(xmlids), req)

UnitsExamined(op, req) ==
    IF op = "extract_field" THEN Len(_fetch_fields(req.models, req.fields))
    ELSE ViewUnits(req.action_xmlids, req)

\* C29: every unit an extraction call examines, inserted, updated or skipped
\* for any reason, has exactly one entry in the returned details, so the
\* length of details is the number of units examined.
C29_OneDetailPerUnit ==
    res.op \in ExtractOps =>
        Len(res.out.details) = UnitsExamined(res.op, res.req)

\* what holds of the code: the units without an entry are exactly the ones
\* inserted or updated
C29_DetailsAreTheSkips ==
    res.op \in ExtractOps =>
        /\ Len(res.out.details) + res.out.inserted + res.out.updated
              = UnitsExamined(res.op, res.req)
        /\ \A nk \in res.written :
              \A i \in 1..Len(res.out.details) : res.out.details[i][1] # nk

----------------------------------------------------------------------------
(* Properties of repeated packaging runs *)

\* the rows packaging has to get to
ToPackage ==
    {nk \in NaturalKeys : /\ HasRow(translate, nk)
                          /\ translate[nk].state \in {"translated", "ready_for_chroma"}}

\* a further run of the scheduler's request leaves every variable as it is:
\* from here on the fair scheduler's runs change nothing
Standstill ==
    /\ res.op = "pack"
    /\ \E p \in {pack(res.req, {})} :
         /\ p.docs = docs
         /\ p.did = nextDid
         /\ p.tbl = translate
         /\ Finished("pack", res.req, p.r, Written(translate, p.tbl)) = res

\* C26: repeated packaging runs with a fixed limit make progress: unless a
\* row fails, every translated row is eventually selected and packaged, also
\* when more rows are translated than the limit.  The runs therefore never
\* come to a standstill, where every further run repeats the last one, while
\* a translated row has no document row.
C26_EveryTranslatedRowIsPackaged ==
    (Standstill /\ res.out.failed = 0) => \A nk \in ToPackage : HasRow(docs, nk)

\* what holds of the code: the runs come to a standstill only when the first
\* RepeatLimit translated rows are packaged
C26_FirstRowsArePackaged ==
    (Standstill /\ res.out.failed = 0) =>
        \A nk \in ToPackage :
            translate[nk].id <= RepeatLimit \/ HasRow(docs, nk)
            \/ \E other \in ToPackage : translate[other].id < translate[nk].id

----------------------------------------------------------------------------
(* Properties of the keyset listing *)

\* the id a call's cursor stands for: 0 for the first call, else the last id
\* of the page before
CursorId(k) ==
    IF k = 1 THEN 0
    ELSE walk.calls[k - 1].items[Len(walk.calls[k - 1].items)]

\* all ids returned so far, page after page
RECURSIVE ReturnedIds(_)
ReturnedIds(k) ==
    IF k = 0 THEN <<>> ELSE ReturnedIds(k - 1) \o walk.calls[k].items

ForwardOnly ==
    /\ \A k \in 1..Len(walk.calls) :
         LET items == walk.calls[k].items
         IN /\ k > 1 => walk.calls[k - 1].items # <<>>
            /\ \A i \in 1..Len(items) :
                 /\ items[i] > CursorId(k)
                 /\ items[i] \in Matching(walk.table, walk.filter)
                 /\ i > 1 => items[i - 1] < items[i]
    /\ LET all == ReturnedIds(Len(walk.calls))
       IN \A i, j \in 1..Len(all) : i # j => all[i] # all[j]
    /\ walk.pc = "done" =>
         /\ Range(ReturnedIds(Len(walk.calls))) = Matching(walk.table, walk.filter)
         /\ Len(walk.calls) <= Cardinality(Matching(walk.table, walk.filter)) + 1

\* C30: following next_cursor from the start over an unchanging table, every
\* page holds only matching rows with id greater than the cursor, in ascending
\* id order; no row is returned twice and, when the sequence has ended, each
\* matching row was returned once; and the sequence ends: the client holds a
\* cursor after at most as many calls as there are matching rows, so that a
\* client that goes on calling gets no next_cursor at the latest from the
\* call after those.
C30_ForwardOnlyPaging ==
    /\ ForwardOnly
    /\ walk.pc = "paging" =>
         Len(walk.calls) <= Cardinality(Matching(walk.table, walk.filter))

\* a walk of three pages over a table with a gap and a filtered-out row
C30_Witness ==
    /\ walk.pc = "done"
    /\ Len(walk.calls) >= 3
    /\ walk.filter # Null
    /\ \E i \in DOMAIN walk.table : walk.table[i] = Absent
    /\ \E i \in DOMAIN walk.table : walk.table[i] = "upserted"
    /\ Cardinality(Matching(walk.table, walk.filter)) >= 2

====
